---- MODULE Spec2Model ----
(***************************************************************************)
(* Model of the columnar file readers of Doris' backend:                   *)
(*   be/src/vec/exec/format/orc/vorc_reader.{h,cpp}       (OrcReader)      *)
(*   be/src/vec/exec/format/parquet/vparquet_reader.cpp   (ParquetReader)  *)
(* Each part of the readers is a group of variables with its own           *)
(* specification; the variables of the other groups stay idle in it.       *)
(***************************************************************************)
EXTENDS Integers, Sequences, FiniteSets, TLC

\* ------------------------------------------------------------------------
\* Bounds of the model
\* ------------------------------------------------------------------------
\* Column values of the search-argument model range over 0..MaxVal.
MaxVal == 2

\* The SQL NULL of a column value or of a literal.
NULL == -1

\* A Parquet file of the scan has at most PqMaxGroups row groups.
PqMaxGroups == 2
\* Rows of a Parquet row group.
PqGroupRows == 3
\* _batch_size of the Parquet reader.
PqBatchSize == 2
\* Position deletes: the largest row id of a delete list, the largest first
\* row of a batch and the most rows of a batch.
PdMaxRowId == 11
PdMaxStart == 2
PdBatchRows == 10
\* Rows of an ORC file and _batch_size of the ORC reader.
OcMaxRows == 4
OcBatchSize == 2
\* Entries of a string dictionary and rows of a stripe.
DcMaxDict == 2
DcMaxRows == 2
\* Rows of a column batch, elements of its child batch and the largest
\* offset of an array batch.
CvMaxRows == 2
CvMaxElems == 2
CvMaxOffset == 2
\* RowIdConversion: the segments given to init_segment_map in all, the rows
\* of a segment and the source rows given to add in all.
RcMaxSegments == 2
RcMaxRows == 1
RcMaxItems == 2
\* JsonbWriterT: the calls of a writer that return true between two resets,
\* and the deepest nesting of containers (jsonb_document.h, scaled down).
JwMaxCalls == 4
MaxNestingLevel == 2
\* Meta service: the partitions of the table.
MsMaxPartitions == 2
\* Scales of a decimal column, unscaled integers and batches of the column.
DmMaxScale == 2
DmMaxUnscaled == 12
DmMaxBatches == 2
\* vorc_reader.cpp 102: std::numeric_limits<uint32_t>::max(), 2^32 - 1. The
\* largest integer of TLC stands for it: no dictionary has as many codes.
MAX_DICT_CODE_PREDICATE_TO_REWRITE == 2147483647

VARIABLES
    \* ---- OrcReader search argument (vorc_reader.cpp 702-948)
    sa_conjuncts,   \* _lazy_read_ctx.conjuncts: the expression trees
    sa_stripe,      \* the rows of one stripe of the file
    sa_sargs,       \* _row_reader_options.searchArgument: a tree or NoSarg
    sa_pc,          \* "start" | "built" | "selected"
    sa_needed,      \* whether the row reader reads the stripe
    \* ---- ParquetReader (vparquet_reader.cpp)
    pq_file,                 \* _t_metadata / _file_metadata: the parsed footer
    pq_cfg,                  \* the arguments of the constructor and of init_reader
    pq_pc,                   \* "unopened" | "inited" | "ready" | "closed"
    pq_read_table_columns,   \* _read_table_columns
    pq_missing_cols,         \* _missing_cols
    pq_read_row_groups,      \* _read_row_groups
    pq_current_group_reader, \* _current_group_reader (NoReader: nullptr)
    pq_row_group_eof,        \* _row_group_eof
    pq_statistics,           \* _statistics
    pq_delete_rows_index,    \* _delete_rows_index
    pq_should_stop,          \* _io_ctx->should_stop
    pq_ret,                  \* status, *eof and *read_rows of the last call
    pq_emitted,              \* absolute row ids of the rows put into blocks
    pq_opened,               \* row groups handed to a RowGroupReader, with their ranges
    pq_failed,               \* some get_next_block returned an error status
    pq_lazy_read_ctx,        \* _lazy_read_ctx
    \* ---- set_fill_columns of ParquetReader and OrcReader
    fl_in,       \* the reader and the arguments of init_reader and set_fill_columns
    fl_pc,       \* "inited" | "filled"
    fl_status,   \* the status set_fill_columns returned
    fl_ctx,      \* _lazy_read_ctx
    \* ---- OrcReader: the delete filter of one batch (vorc_reader.cpp 2128-2151, 2838-2851)
    pd_in,       \* the batch, its filter and the delete set
    pd_filter,   \* the filter vector
    pd_first,    \* the filter vector after the first application
    pd_count,    \* the number of applications
    \* ---- OrcReader::get_next_block_impl (vorc_reader.cpp 1867-2260)
    oc_file,     \* the rows of the file
    oc_cfg,      \* conjuncts, _delete_rows, _position_delete_ordered_rowids
    oc_rd,       \* the readers with lazy materialization enabled / disabled
    \* ---- OrcReader dictionary filter (vorc_reader.cpp 2262-2552)
    dc_col,      \* the string column of the stripe
    dc_ctxs,     \* _slot_id_to_filter_conjuncts of the slot
    dc_st,       \* _dict_filter_cols, _dict_filter_conjuncts, ...
    dc_pc,       \* the position in the stripe
    dc_filter,   \* the filter of the stripe's rows
    dc_disable_dict_filter,  \* _disable_dict_filter
    \* ---- OrcReader: decode of a decimal column (vorc_reader.h 370-470)
    dm_orc_scale,     \* data->scale: the scale of the column in the file
    dm_dest_scale,    \* decimal_type->get_scale(): the scale of the requested type
    dm_scale_params,  \* _decimal_scale_params
    dm_values,        \* the unscaled integers of the batches read so far
    dm_column,        \* column_data: the decoded values
    \* ---- OrcReader: conversion of a column batch (vorc_reader.cpp 1600-1839)
    cv_type,     \* the requested type of the column
    cv_file,     \* the batches of the column in the file
    cv_pos,      \* the batches read
    cv_pc,       \* "ready" | "crashed"
    cv_ret,      \* status, *eof and *read_rows of the last get_next_block
    cv_emitted,  \* the columns of the blocks returned with status OK
    \* ---- RowIdConversion (rowid_conversion.h)
    rc_segments_rowid_map,     \* _segments_rowid_map
    rc_segment_to_id_map,      \* _segment_to_id_map
    rc_id_to_segment_map,      \* _id_to_segment_map
    rc_dst_rowst_id,           \* _dst_rowst_id
    rc_cur_dst_segment_id,     \* _cur_dst_segment_id
    rc_cur_dst_segment_rowid,  \* _cur_dst_segment_rowid
    rc_added,    \* the destination that the last add of a source row recorded
    rc_calls,    \* the segments given to init_segment_map and the rows given to add so far
    rc_pc,       \* "built" while the map is filled, "used" once get has been called
    rc_get,      \* of every source row, the result and *dst of get
    rc_dst,      \* dst_segments_num_row of the last add and the rows added so far
    \* ---- JsonbWriterT (jsonb_writer.h)
    jw_w,        \* the writer: os_, hasHdr_, kvState_, str_pos_, stack_, first_
    jw_doc,      \* the document the calls that returned true have written
    jw_calls,    \* the calls that returned true since construction or reset
    jw_op,       \* the write function called last
    jw_ret,      \* what it returned
    \* ---- meta service (meta_service_operation_log_test.cpp)
    ms_version_write,  \* is_version_write_enabled(instance_id)
    ms_store,          \* txn_kv: keys, operation logs, last versionstamp
    ms_parts,          \* what the calls that returned OK did to each partition
    ms_res,            \* res.status().code() of the last call
    \* ---- ParquetReader: the readers of the scan ranges of a file (vparquet_reader.cpp 642-757)
    sr_file,  \* the file: its row groups with their bytes
    sr_ranges,  \* the scan ranges of the readers, tiling the bytes of the file
    sr_readers, \* of every reader: the status of _init_row_groups and the ids in _read_row_groups
    \* ---- OrcReader with COUNT push-down (vorc_reader.cpp 1867-1887)
    ct_rows,  \* _row_reader->getNumberOfRows(): the rows of the stripes of the scan
    ct_remaining_rows,  \* _remaining_rows
    ct_pc,  \* "unopened" | "ready"
    ct_should_stop,  \* _io_ctx->should_stop
    ct_ret,  \* status, *eof and *read_rows of the last get_next_block
    ct_sum, \* the sum of the read_rows returned so far
    \* ---- OrcReader: the dictionary filter over the stripes (vorc_reader.cpp 2262-2552)
    ds_ctxs,  \* _slot_id_to_filter_conjuncts: the conjuncts of every slot
    ds_null_map,  \* _slot_id_to_filter_conjuncts == nullptr
    ds_disable_dict_filter,  \* _disable_dict_filter
    ds_st,  \* _dict_filter_cols, _dict_filter_conjuncts, _non_dict_filter_conjuncts, ...
    ds_stripe,  \* the string columns of the current stripe
    ds_stripes,  \* the number of stripes started
    ds_pc,  \* the position in the stripe
    ds_filter, \* the verdict of the last filter on every row the stripe may hold
    \* ---- OrcReader::get_next_block: the dictionary filter columns of the block
    dx_file,  \* the batches of the file
    dx_lazy,  \* _lazy_read_ctx.can_lazy_read
    dx_pos,  \* the batches the row reader has read
    dx_st,  \* _dict_filter_cols, the types of the block's columns, _dict_cols_has_converted
    dx_should_stop,  \* _io_ctx->should_stop
    dx_ret,  \* status and *eof of the last get_next_block
    dx_pc, \* "ready" | "called" | "failed"
    \* ---- OrcReader: the cached scale parameters of the decimal columns
    dp_predicate_columns,  \* the decimal columns among the predicate columns
    dp_lazy_columns,  \* the decimal columns among the lazy columns
    dp_can_lazy_read,  \* _lazy_read_ctx.can_lazy_read
    dp_st,  \* _decimal_scale_params, _decimal_scale_params_index, the decodes of the last call
    dp_callbacks,  \* the filter callbacks of the last nextBatch
    dp_pc  \* "ready" | "eof"

savars == <<sa_conjuncts, sa_stripe, sa_sargs, sa_pc, sa_needed>>

pqvars == <<pq_file, pq_cfg, pq_pc, pq_read_table_columns, pq_missing_cols,
            pq_read_row_groups, pq_current_group_reader, pq_row_group_eof,
            pq_statistics, pq_delete_rows_index, pq_should_stop, pq_ret,
            pq_emitted, pq_opened, pq_failed, pq_lazy_read_ctx>>

flvars == <<fl_in, fl_pc, fl_status, fl_ctx>>

pdvars == <<pd_in, pd_filter, pd_first, pd_count>>

ocvars == <<oc_file, oc_cfg, oc_rd>>

dcvars == <<dc_col, dc_ctxs, dc_st, dc_pc, dc_filter, dc_disable_dict_filter>>

dmvars == <<dm_orc_scale, dm_dest_scale, dm_scale_params, dm_values, dm_column>>

cvvars == <<cv_type, cv_file, cv_pos, cv_pc, cv_ret, cv_emitted>>

\* The variables of the parts from the column conversion on, those of the
\* parts before it, and those a part from the column conversion on leaves alone
rcvars == <<rc_segments_rowid_map, rc_segment_to_id_map, rc_id_to_segment_map,
            rc_dst_rowst_id, rc_cur_dst_segment_id, rc_cur_dst_segment_rowid,
            rc_added, rc_calls, rc_pc, rc_get, rc_dst>>

jwvars == <<jw_w, jw_doc, jw_calls, jw_op, jw_ret>>

msvars == <<ms_version_write, ms_store, ms_parts, ms_res>>

srvars == <<sr_file, sr_ranges, sr_readers>>

ctvars == <<ct_rows, ct_remaining_rows, ct_pc, ct_should_stop, ct_ret, ct_sum>>

dsvars == <<ds_ctxs, ds_null_map, ds_disable_dict_filter, ds_st, ds_stripe, ds_stripes, ds_pc, ds_filter>>

dxvars == <<dx_file, dx_lazy, dx_pos, dx_st, dx_should_stop, dx_ret, dx_pc>>

dpvars == <<dp_predicate_columns, dp_lazy_columns, dp_can_lazy_read, dp_st, dp_callbacks, dp_pc>>

lastvars == <<srvars, ctvars, dsvars, dxvars, dpvars>>

midvars == <<cvvars, rcvars, jwvars, msvars>>

tailvars == <<cvvars, rcvars, jwvars, msvars, lastvars>>

headvars == <<savars, pqvars, flvars, pdvars, ocvars, dcvars, dmvars>>

notsrvars == <<headvars, midvars, ctvars, dsvars, dxvars, dpvars>>

notctvars == <<headvars, midvars, srvars, dsvars, dxvars, dpvars>>

notdsvars == <<headvars, midvars, srvars, ctvars, dxvars, dpvars>>

notdxvars == <<headvars, midvars, srvars, ctvars, dsvars, dpvars>>

notdpvars == <<headvars, midvars, srvars, ctvars, dsvars, dxvars>>

notcvvars == <<headvars, rcvars, jwvars, msvars, lastvars>>

notrcvars == <<headvars, cvvars, jwvars, msvars, lastvars>>

notjwvars == <<headvars, cvvars, rcvars, msvars, lastvars>>

notmsvars == <<headvars, cvvars, rcvars, jwvars, lastvars>>

vars == <<savars, pqvars, flvars, pdvars, ocvars, dcvars, dmvars, tailvars>>

\* ========================================================================
\* Three-valued logic of the expression evaluator
\* ========================================================================
Not3(a) == IF a = "T" THEN "F" ELSE IF a = "F" THEN "T" ELSE "U"

And3(a, b) ==
    IF a = "F" \/ b = "F" THEN "F"
    ELSE IF a = "T" /\ b = "T" THEN "T" ELSE "U"

Or3(a, b) ==
    IF a = "T" \/ b = "T" THEN "T"
    ELSE IF a = "F" /\ b = "F" THEN "F" ELSE "U"

Bool3(b) == IF b THEN "T" ELSE "F"

Range(s) == {s[i] : i \in DOMAIN s}

\* ========================================================================
\* OrcReader: search argument
\* ========================================================================
\* Columns: "a" is a file column of a type the ORC predicate types support,
\* "p" is a predicate partition column (not in the file).
SaCols == {"a", "p"}
SaFileCols == {"a"}

CmpOps == {"GE", "GT", "LE", "LT", "EQ", "NE"}
InOps == {"FILTER_IN", "FILTER_NOT_IN"}
NullOps == {"is_null_pred", "is_not_null_pred"}

Leaf(op, col, lits) == [op |-> op, col |-> col, lits |-> lits, kids |-> <<>>]
Compound(op, kids) == [op |-> op, col |-> "", lits |-> <<>>, kids |-> kids]

\* The leaves of the conjunct trees: comparisons of the file column with a
\* literal or with a NULL literal, IN lists with and without a NULL literal,
\* null tests, a comparison on the partition column and a function call the
\* reader does not push down.
SaLeaves ==
    {Leaf(op, "a", <<1>>) : op \in CmpOps}
    \cup {Leaf("EQ", "a", <<NULL>>), Leaf("EQ", "p", <<1>>), Leaf("fn", "a", <<>>)}
    \cup {Leaf(op, "a", l) : op \in InOps, l \in {<<0, MaxVal>>, <<1, NULL>>}}
    \cup {Leaf(op, "a", <<>>) : op \in NullOps}

SaCompounds ==
    {Compound(op, <<l, r>>) : op \in {"COMPOUND_AND", "COMPOUND_OR"},
                              l \in SaLeaves, r \in SaLeaves}

SaNots(S) == {Compound("COMPOUND_NOT", <<e>>) : e \in S}

SaExprs == SaLeaves \cup SaCompounds \cup SaNots(SaLeaves) \cup SaNots(SaCompounds)

\* Evaluation of a conjunct on a decoded row (the engine's evaluator).
EvalLeaf(e, row) ==
    LET v == row[e.col] IN
    CASE e.op \in CmpOps ->
            LET l == e.lits[1] IN
            IF v = NULL \/ l = NULL THEN "U"
            ELSE Bool3(CASE e.op = "GE" -> v >= l
                         [] e.op = "GT" -> v > l
                         [] e.op = "LE" -> v <= l
                         [] e.op = "LT" -> v < l
                         [] e.op = "EQ" -> v = l
                         [] e.op = "NE" -> v # l)
      [] e.op \in InOps ->
            LET in == IF v = NULL THEN "U"
                      ELSE IF v \in Range(e.lits) THEN "T"
                      ELSE IF NULL \in Range(e.lits) THEN "U" ELSE "F"
            IN IF e.op = "FILTER_IN" THEN in ELSE Not3(in)
      [] e.op = "is_null_pred" -> Bool3(v = NULL)
      [] e.op = "is_not_null_pred" -> Bool3(v # NULL)
      [] e.op = "fn" -> IF v = NULL THEN "U" ELSE Bool3(v % 2 = 0)

RECURSIVE EvalExpr(_, _)
EvalExpr(e, row) ==
    CASE e.op = "COMPOUND_AND" -> And3(EvalExpr(e.kids[1], row), EvalExpr(e.kids[2], row))
      [] e.op = "COMPOUND_OR" -> Or3(EvalExpr(e.kids[1], row), EvalExpr(e.kids[2], row))
      [] e.op = "COMPOUND_NOT" -> Not3(EvalExpr(e.kids[1], row))
      [] OTHER -> EvalLeaf(e, row)

\* _check_slot_can_push_down: the slot is a file column, not a predicate
\* partition column, and its ORC type has a predicate type.
CheckSlotCanPushDown(e) == e.col \in SaFileCols

\* _check_literal_can_push_down / _make_orc_literal: a NULL literal is not
\* converted.
CheckLiteralCanPushDown(l) == l # NULL

\* _check_rest_children_can_push_down: at least one literal converts.
CheckRestChildrenCanPushDown(e) ==
    /\ Len(e.lits) >= 1
    /\ \E i \in DOMAIN e.lits : CheckLiteralCanPushDown(e.lits[i])

\* _check_expr_can_push_down
RECURSIVE CheckExprCanPushDown(_)
CheckExprCanPushDown(e) ==
    CASE e.op = "COMPOUND_AND" ->
            \E i \in DOMAIN e.kids : CheckExprCanPushDown(e.kids[i])
      [] e.op = "COMPOUND_OR" ->
            \A i \in DOMAIN e.kids : CheckExprCanPushDown(e.kids[i])
      [] e.op = "COMPOUND_NOT" -> CheckExprCanPushDown(e.kids[1])
      [] e.op \in CmpOps \cup InOps ->
            CheckSlotCanPushDown(e) /\ CheckRestChildrenCanPushDown(e)
      [] e.op \in NullOps -> CheckSlotCanPushDown(e)
      [] OTHER -> FALSE

\* The nodes of an orc::SearchArgument.
SargLeaf(op, col, lits) == [op |-> op, col |-> col, lits |-> lits, kids |-> <<>>]
SargNode(op, kids) == [op |-> op, col |-> "", lits |-> <<>>, kids |-> kids]
SargNot(s) == SargNode("not", <<s>>)

\* _build_filter_in: only the converted literals; one literal is an equals.
BuildFilterIn(e) ==
    LET literals == SelectSeq(e.lits, CheckLiteralCanPushDown) IN
    IF Len(literals) = 1 THEN SargLeaf("equals", e.col, literals)
    ELSE SargLeaf("in", e.col, literals)

\* _build_search_argument, for an expression that can be pushed down.
RECURSIVE BuildSearchArgument(_)
BuildSearchArgument(e) ==
    LET pushed == SelectSeq(e.kids, CheckExprCanPushDown)
        built == [i \in DOMAIN pushed |-> BuildSearchArgument(pushed[i])]
    IN
    CASE e.op = "COMPOUND_AND" -> SargNode("and", built)
      [] e.op = "COMPOUND_OR" -> SargNode("or", built)
      [] e.op = "COMPOUND_NOT" -> SargNot(built[1])
      [] e.op = "GE" -> SargNot(SargLeaf("lessThan", e.col, e.lits))
      [] e.op = "GT" -> SargNot(SargLeaf("lessThanEquals", e.col, e.lits))
      [] e.op = "LE" -> SargLeaf("lessThanEquals", e.col, e.lits)
      [] e.op = "LT" -> SargLeaf("lessThan", e.col, e.lits)
      [] e.op = "EQ" -> SargLeaf("equals", e.col, e.lits)
      [] e.op = "NE" -> SargNot(SargLeaf("equals", e.col, e.lits))
      [] e.op = "FILTER_IN" -> BuildFilterIn(e)
      [] e.op = "FILTER_NOT_IN" -> SargNot(BuildFilterIn(e))
      [] e.op = "is_null_pred" -> SargLeaf("isNull", e.col, <<>>)
      [] e.op = "is_not_null_pred" -> SargNot(SargLeaf("isNull", e.col, <<>>))

NoSarg == SargLeaf("none", "", <<>>)

\* _init_search_argument: the AND of the conjuncts that can be pushed down;
\* no search argument when none can.
InitSearchArgumentResult(conjuncts) ==
    LET pushed == SelectSeq(conjuncts, CheckExprCanPushDown) IN
    IF Len(pushed) = 0 THEN NoSarg
    ELSE SargNode("and", [i \in DOMAIN pushed |-> BuildSearchArgument(pushed[i])])

\* ---- the ORC library's evaluation of a search argument on the column
\* statistics of a stripe: a truth value is the set of the results the
\* predicate may have on the rows of the stripe.
StatVals(stripe, col) == {r[col] : r \in stripe} \ {NULL}
StatHasNull(stripe, col) == \E r \in stripe : r[col] = NULL
SetMin(S) == CHOOSE x \in S : \A y \in S : x <= y
SetMax(S) == CHOOSE x \in S : \A y \in S : x >= y

SargLeafTruth(s, stripe) ==
    LET vals == StatVals(stripe, s.col)
        hasNull == StatHasNull(stripe, s.col)
    IN
    IF s.op = "isNull"
    THEN IF vals = {} THEN {"T"} ELSE IF hasNull THEN {"T", "F"} ELSE {"F"}
    ELSE IF vals = {} THEN {"U"}
    ELSE LET mn == SetMin(vals)
             mx == SetMax(vals)
             l == s.lits[1]
             ls == Range(s.lits)
             tv == CASE s.op = "equals" ->
                           IF mn = l /\ mx = l THEN {"T"}
                           ELSE IF l < mn \/ l > mx THEN {"F"} ELSE {"T", "F"}
                     [] s.op = "lessThan" ->
                           IF mx < l THEN {"T"}
                           ELSE IF mn >= l THEN {"F"} ELSE {"T", "F"}
                     [] s.op = "lessThanEquals" ->
                           IF mx <= l THEN {"T"}
                           ELSE IF mn > l THEN {"F"} ELSE {"T", "F"}
                     [] s.op = "in" ->
                           IF mn = mx /\ mn \in ls THEN {"T"}
                           ELSE IF \A x \in ls : x < mn \/ x > mx THEN {"F"}
                           ELSE {"T", "F"}
         IN tv \cup (IF hasNull THEN {"U"} ELSE {})

RECURSIVE SargTruthAll(_, _, _)
RECURSIVE SargTruth(_, _)
SargTruth(s, stripe) ==
    CASE s.op = "not" -> {Not3(a) : a \in SargTruth(s.kids[1], stripe)}
      [] s.op = "and" -> SargTruthAll(s.kids, stripe, "and")
      [] s.op = "or" -> SargTruthAll(s.kids, stripe, "or")
      [] OTHER -> SargLeafTruth(s, stripe)
SargTruthAll(kids, stripe, op) ==
    IF Len(kids) = 1 THEN SargTruth(kids[1], stripe)
    ELSE LET h == SargTruth(kids[1], stripe)
             t == SargTruthAll(Tail(kids), stripe, op)
         IN {IF op = "and" THEN And3(a, b) ELSE Or3(a, b) : a \in h, b \in t}

\* A stripe is read unless the search argument cannot be true on it.
StripeNeeded(sargs, stripe) ==
    sargs = NoSarg \/ "T" \in SargTruth(sargs, stripe)

\* ---- the state machine
\* A row gives the file column and the partition column; the partition
\* column has one value in a file.
SaRows == [a : (0..MaxVal) \cup {NULL}, p : {0, 1}]
SaStripes ==
    {s \in SUBSET SaRows : s # {} /\ Cardinality(s) <= 2
                           /\ \A r1, r2 \in s : r1.p = r2.p}

SaIdle ==
    /\ sa_conjuncts = <<>>
    /\ sa_stripe = {}
    /\ sa_sargs = NoSarg
    /\ sa_pc = "idle"
    /\ sa_needed = TRUE

SaInit ==
    /\ sa_conjuncts \in {<<e>> : e \in SaExprs}
                        \cup {<<l, r>> : l \in SaLeaves, r \in SaLeaves}
    /\ sa_stripe \in SaStripes
    /\ sa_sargs = NoSarg
    /\ sa_pc = "start"
    /\ sa_needed = TRUE

\* OrcReader::_init_search_argument (called by set_fill_columns)
InitSearchArgument ==
    /\ sa_pc = "start"
    /\ sa_sargs' = InitSearchArgumentResult(sa_conjuncts)
    /\ sa_pc' = "built"
    /\ UNCHANGED <<sa_conjuncts, sa_stripe, sa_needed>>
    /\ UNCHANGED <<pqvars, flvars, pdvars, ocvars, dcvars, dmvars, tailvars>>

\* The row reader selects the stripes to read with the search argument.
SelectStripe ==
    /\ sa_pc = "built"
    /\ sa_needed' = StripeNeeded(sa_sargs, sa_stripe)
    /\ sa_pc' = "selected"
    /\ UNCHANGED <<sa_conjuncts, sa_stripe, sa_sargs>>
    /\ UNCHANGED <<pqvars, flvars, pdvars, ocvars, dcvars, dmvars, tailvars>>

SaNext == InitSearchArgument \/ SelectStripe


\* A row of the stripe satisfies every conjunct.
SaRowSatisfies(row) ==
    \A i \in DOMAIN sa_conjuncts : EvalExpr(sa_conjuncts[i], row) = "T"

\* C1: the search argument is implied by the conjuncts: a stripe that holds
\* a row satisfying all conjuncts is never excluded by it.
C1_SargNeverExcludesSatisfyingRow ==
    (sa_pc = "selected" /\ \E row \in sa_stripe : SaRowSatisfies(row))
        => sa_needed


\* ========================================================================
\* ParquetReader
\* ========================================================================
\* Statuses of a call.
OK == "OK"
END_OF_FILE == "END_OF_FILE"
ERROR == "ERROR"

\* File columns: x is primitive, y is primitive or of complex type.
PqFileCols == {"x", "y"}
\* ... and the row column of a transactional table
FlFileCols == PqFileCols \cup {"rowid"}
\* Table columns asked of the reader in the scan specification; m is a table
\* column the file does not have.
PqTableCols == <<"x", "y", "m">>

Seq2Set(s) == {s[i] : i \in DOMAIN s}

\* tparquet::Statistics of a column chunk and what the reader derives from
\* it: min/max set, all values null, sort order usable, writer with corrupt
\* statistics.
PqStat(set, mn, mx, allnull, order, corrupt) ==
    [is_set_min_max |-> set, min |-> mn, max |-> mx, is_all_null |-> allnull,
     sort_orders_match |-> order, corrupted |-> corrupt]

PqChunkStats ==
    {PqStat(TRUE, 10, 20, FALSE, TRUE, FALSE),
     PqStat(TRUE, 10, 20, FALSE, TRUE, TRUE),
     PqStat(FALSE, 0, 0, FALSE, TRUE, FALSE),
     PqStat(FALSE, 0, 0, TRUE, TRUE, FALSE)}

\* A page of the column index with its first row from the offset index.
PqPage(first, mn, mx, np) ==
    [first_row |-> first, min |-> mn, max |-> mx, null_page |-> np]

PqPageStats == {<<10, 20, FALSE>>, <<30, 30, FALSE>>, <<0, 0, TRUE>>}

\* The page layouts of a chunk of n rows: no page index, one page, two
\* pages split at any row, or three pages of which the second starts at
\* row 1 and the last at row n - 1.
PqPageLayouts(n) ==
    {<<>>}
    \cup (IF n >= 3
          THEN {<<PqPage(0, 10, 20, FALSE), PqPage(1, 30, 30, FALSE),
                  PqPage(n - 1, 10, 20, FALSE)>>}
          ELSE {})
    \cup {<<PqPage(0, s[1], s[2], s[3])>> : s \in PqPageStats}
    \cup {<<PqPage(0, s[1], s[2], s[3]), PqPage(k, t[1], t[2], t[3])>> :
              s \in PqPageStats, t \in PqPageStats, k \in 1..(n - 1)}

PqChunk(stat, pages) == [statistics |-> stat, pages |-> pages]

\* A row group: its rows, its bytes and the chunk of every file column.
PqRowGroup(n, start, end, cx, cy) ==
    [num_rows |-> n, start_offset |-> start, end_offset |-> end,
     columns |-> [c \in PqFileCols |-> IF c = "x" THEN cx ELSE cy]]

PlainChunk == PqChunk(PqStat(TRUE, 10, 20, FALSE, TRUE, FALSE), <<>>)

\* Row group i of a file occupies the bytes [4 i, 4 i + 4).
PqGroupBytes == 4

\* Scan ranges: the row groups of a file, the bytes of a row group, and the
\* scan ranges of a file.
DsMaxStripes == 2
DxMaxBatches == 2
DpMaxCallbacks == 2
SrMaxGroups == 2
SrMaxGroupBytes == 3
SrMaxRanges == 3

\* Files with one row group and every statistics and page layout of x.
PqPruneFiles ==
    {[row_groups |-> <<PqRowGroup(PqGroupRows, 0, PqGroupBytes, PqChunk(st, px), PqChunk(st, py))>>,
      y_complex |-> FALSE] :
        st \in PqChunkStats, px \in PqPageLayouts(PqGroupRows),
        py \in {<<>>, <<PqPage(0, 10, 20, FALSE), PqPage(1, 30, 30, FALSE)>>}}

\* Files with several row groups of one to PqGroupRows rows.
PqScanGroup(i, n, chunk) ==
    PqRowGroup(n, PqGroupBytes * (i - 1), PqGroupBytes * i, chunk, chunk)

\* A chunk with a page index of one page.
PagedChunk == PqChunk(PqStat(TRUE, 10, 20, FALSE, TRUE, FALSE), <<PqPage(0, 10, 20, FALSE)>>)

PqScanFiles ==
    {[row_groups |-> [i \in 1..k |-> PqScanGroup(i, ns[i], chunk)], y_complex |-> yc] :
        k \in 0..PqMaxGroups, ns \in [1..PqMaxGroups -> {1, PqGroupRows}],
        yc \in BOOLEAN, chunk \in {PlainChunk, PagedChunk}}

\* ColumnValueRange of a column: the values low..high.
PqValueRange(lo, hi) == [low |-> lo, high |-> hi]
PqNoRanges == [c \in {} |-> PqValueRange(0, 0)]
PqRanges ==
    {PqNoRanges}
    \cup {[c \in {"x"} |-> r] : r \in {PqValueRange(26, 99), PqValueRange(0, 15), PqValueRange(15, 30)}}
    \cup {[c \in {"x", "y"} |-> PqValueRange(26, 99)]}

\* not in read-line mode: _read_line_mode_mode is false
NoReadLines == <<-1>>

\* The arguments of the reader. read_lines: _read_lines, the rows of the
\* file asked for in read-line mode, ascending
PqCfg(ranges, conj, mm, pi, rs, rz, dels, agg) ==
    [colname_to_value_range |-> ranges, conjunct_cols |-> conj,
     enable_filter_by_min_max |-> mm, enable_parquet_page_index |-> pi,
     range_start_offset |-> rs, range_size |-> rz,
     delete_rows |-> dels, push_down_agg_count |-> agg,
     all_column_names |-> PqTableCols, filter_groups |-> TRUE,
     read_lines |-> NoReadLines]

\* no position deletes: _delete_rows = nullptr
NoDeletes == <<-1>>

\* The conjuncts refer at least to the columns with a value range.
PqPruneCfgs ==
    UNION {{PqCfg(r, c, mm, pi, 0, PqGroupBytes, NoDeletes, FALSE) :
                c \in {DOMAIN r, (DOMAIN r) \cup {"x"}},
                mm \in BOOLEAN, pi \in BOOLEAN} : r \in PqRanges}

PqScanCfgs ==
    {PqCfg(r, DOMAIN r, TRUE, TRUE, 0, rz, d, agg) :
        r \in {PqNoRanges, [c \in {"x"} |-> PqValueRange(26, 99)]},
        rz \in {PqGroupBytes, PqGroupBytes * PqMaxGroups},
        d \in {NoDeletes, <<0, PqGroupRows>>},
        agg \in BOOLEAN}

\* Readers in read-line mode, without conjuncts or deletes.
PqReadLineCfgs ==
    {[PqCfg(PqNoRanges, {}, TRUE, TRUE, 0, PqGroupBytes * PqMaxGroups, NoDeletes, FALSE)
         EXCEPT !.read_lines = lines] :
        lines \in {<<0, 1>>, <<1, PqGroupRows>>}}

\* The set as an ascending list
RECURSIVE PqAscending(_)
PqAscending(set) ==
    IF set = {} THEN <<>>
    ELSE LET m == CHOOSE x \in set : \A y \in set : x <= y
         IN <<m>> \o PqAscending(set \ {m})

\* Position-delete lists: one or two rows of the first rows of the file,
\* ascending
PqDeleteLists ==
    {PqAscending(d) : d \in {e \in SUBSET (0..(PqGroupRows + 1)) :
                                 e # {} /\ Cardinality(e) <= 2}}

\* Readers with position deletes, of the scan range of the whole file, of
\* its first row group or of its second row group
PqDeleteCfgs ==
    {PqCfg(PqNoRanges, {}, TRUE, TRUE, rs, rz, d, FALSE) :
        rs \in {0, PqGroupBytes}, rz \in {PqGroupBytes, PqGroupBytes * PqMaxGroups},
        d \in PqDeleteLists}

\* TableSchemaChangeHelper::Node::children_column_exists
ChildrenColumnExists(col) == col \in PqFileCols
\* FieldSchema::physical_column_index < 0: a column of complex type
PqIsComplex(file, col) == col = "y" /\ file.y_complex

\* ---- init_reader: the read columns in schema order and the missing ones
PqReadTableColumns(names) ==
    SelectSeq(<<"x", "y">>, LAMBDA c : c \in Seq2Set(names) /\ ChildrenColumnExists(c))
PqMissingCols(names) ==
    SelectSeq(names, LAMBDA c : ~ChildrenColumnExists(c))

\* ---- ParquetPredicate::filter_by_stats: the statistics prove that no value
\* of the chunk lies in the value range.
FilterByStats(range, ignore_min_max_stats, mn, mx, is_all_null) ==
    /\ ~ignore_min_max_stats
    /\ ~is_all_null
    /\ (mx < range.low \/ mn > range.high)

\* ---- _process_column_stat_filter: whether the loop body reaches
\* filter_by_stats for a read column, and its result there.
StatFilterConsiders(file, cfg, group, col) ==
    /\ ~ChildrenColumnExists(col)
    /\ col \in DOMAIN cfg.colname_to_value_range
    /\ ~PqIsComplex(file, col)
    /\ LET st == group.columns[col].statistics IN st.is_set_min_max \/ st.is_all_null

\* A variant that takes the min and max of every chunk as they stand
StatFilterOfColumnTrustingMinMax(cfg, group, col) ==
    LET st == group.columns[col].statistics
    IN FilterByStats(cfg.colname_to_value_range[col], FALSE, st.min, st.max, FALSE)

StatFilterOfColumn(cfg, group, col) ==
    LET st == group.columns[col].statistics
        ignore == \/ ~st.is_set_min_max
                  \/ st.corrupted
                  \/ (~st.sort_orders_match /\ st.min # st.max)
    IN FilterByStats(cfg.colname_to_value_range[col], ignore, st.min, st.max,
                     st.is_all_null)

ProcessColumnStatFilter(file, cfg, read_cols, group) ==
    IF ~cfg.enable_filter_by_min_max \/ DOMAIN cfg.colname_to_value_range = {}
    THEN FALSE
    ELSE \E i \in DOMAIN read_cols :
            /\ StatFilterConsiders(file, cfg, group, read_cols[i])
            /\ StatFilterOfColumn(cfg, group, read_cols[i])

\* A variant that takes the end of the scan range for a byte of it.
IsMisalignedRangeGroupClosedEnd(cfg, group) ==
    LET row_group_mid ==
            group.start_offset + (group.end_offset - group.start_offset) \div 2
    IN ~(row_group_mid >= cfg.range_start_offset
         /\ row_group_mid <= cfg.range_start_offset + cfg.range_size)

\* ---- _is_misaligned_range_group
IsMisalignedRangeGroup(cfg, group) ==
    LET row_group_mid ==
            group.start_offset + (group.end_offset - group.start_offset) \div 2
    IN ~(row_group_mid >= cfg.range_start_offset
         /\ row_group_mid < cfg.range_start_offset + cfg.range_size)

\* ---- read-line mode
ReadLineMode(cfg) == cfg.read_lines # NoReadLines

\* _process_row_group_filter in read-line mode: the loop that takes from
\* _read_lines the rows of the row group [group_start, group_end) and adds
\* a range of one row for each to _read_line_mode_row_ranges of the group.
RECURSIVE TakeReadLines(_, _, _, _)
TakeReadLines(read_lines, group_start, group_end, ranges) ==
    IF read_lines = <<>> THEN [read_lines |-> read_lines, ranges |-> ranges]
    ELSE LET v == Head(read_lines) IN
         IF v >= group_start /\ v < group_end
         THEN TakeReadLines(Tail(read_lines), group_start, group_end,
                  Append(ranges, [first_row |-> v - group_start,
                                  last_row |-> v - group_start + 1]))
         ELSE [read_lines |-> read_lines, ranges |-> ranges]

RECURSIVE PqFirstRow(_, _)
PqFirstRow(file, idx) ==
    IF idx = 1 THEN 0 ELSE PqFirstRow(file, idx - 1) + file.row_groups[idx - 1].num_rows

\* _read_lines when the loop of _init_row_groups reaches row group idx: a
\* misaligned row group takes none.
RECURSIVE ReadLinesBefore(_, _, _)
ReadLinesBefore(file, cfg, idx) ==
    IF idx = 1 THEN cfg.read_lines
    ELSE LET before == ReadLinesBefore(file, cfg, idx - 1)
             prev == file.row_groups[idx - 1]
         IN IF cfg.filter_groups /\ IsMisalignedRangeGroup(cfg, prev) THEN before
            ELSE TakeReadLines(before, PqFirstRow(file, idx - 1),
                               PqFirstRow(file, idx - 1) + prev.num_rows, <<>>).read_lines

\* _read_line_mode_row_ranges[idx] once _init_row_groups has run
ReadLineModeRowRanges(file, cfg, idx) ==
    IF ~cfg.filter_groups \/ IsMisalignedRangeGroup(cfg, file.row_groups[idx]) THEN <<>>
    ELSE TakeReadLines(ReadLinesBefore(file, cfg, idx), PqFirstRow(file, idx),
                       PqFirstRow(file, idx) + file.row_groups[idx].num_rows, <<>>).ranges

\* ---- _process_row_group_filter of row group idx (the dictionary and
\* bloom filters are empty)
ProcessRowGroupFilter(file, cfg, read_cols, group, idx) ==
    IF ReadLineMode(cfg) THEN ReadLineModeRowRanges(file, cfg, idx) = <<>>
    ELSE ProcessColumnStatFilter(file, cfg, read_cols, group)

\* A variant of std::lower_bound that passes the entries equal to v
RECURSIVE LowerBoundPastEqual(_, _, _)
LowerBoundPastEqual(rows, from, v) ==
    IF from >= Len(rows) THEN Len(rows)
    ELSE IF rows[from + 1] > v THEN from
    ELSE LowerBoundPastEqual(rows, from + 1, v)

\* A variant that numbers the rows of every row group from 0.
RowGroupIndexFromZero(id, first, last) ==
    [row_group_id |-> id, first_row |-> 0, last_row |-> last - first]

RowGroupIndex(id, first, last) ==
    [row_group_id |-> id, first_row |-> first, last_row |-> last]

PqStatistics0 ==
    [read_row_groups |-> 0, filtered_row_groups |-> 0, filtered_group_rows |-> 0,
     read_rows |-> 0, filtered_page_rows |-> 0]

\* ---- _init_row_groups: the loop over the row groups from index idx on,
\* with the running row_index, read queue and statistics.
RECURSIVE InitRowGroupsLoop(_, _, _, _, _, _, _)
InitRowGroupsLoop(file, cfg, read_cols, idx, row_index, queue, stats) ==
    IF idx > Len(file.row_groups) THEN [queue |-> queue, stats |-> stats]
    ELSE
      LET row_group == file.row_groups[idx]
          next_index == row_index + row_group.num_rows
      IN
      IF cfg.filter_groups /\ IsMisalignedRangeGroup(cfg, row_group)
      THEN InitRowGroupsLoop(file, cfg, read_cols, idx + 1, next_index, queue, stats)
      ELSE
        LET filter_group ==
                cfg.filter_groups /\ ProcessRowGroupFilter(file, cfg, read_cols, row_group, idx)
        IN
        IF ~filter_group
        THEN InitRowGroupsLoop(file, cfg, read_cols, idx + 1, next_index,
                 Append(queue, RowGroupIndex(idx, row_index, next_index)),
                 [stats EXCEPT !.read_row_groups = @ + 1])
        ELSE InitRowGroupsLoop(file, cfg, read_cols, idx + 1, next_index, queue,
                 [stats EXCEPT !.filtered_row_groups = @ + 1,
                               !.filtered_group_rows = @ + row_group.num_rows])

RECURSIVE SumNumRows(_, _)
SumNumRows(row_groups, i) ==
    IF i = 0 THEN 0 ELSE row_groups[i].num_rows + SumNumRows(row_groups, i - 1)

\* FileMetaData::num_rows
PqTotalRows(file) == SumNumRows(file.row_groups, Len(file.row_groups))

\* _init_row_groups: its status and the state it leaves.
InitRowGroups(file, cfg, read_cols) ==
    IF cfg.filter_groups
       /\ (Len(file.row_groups) = 0 \/ PqTotalRows(file) = 0 \/ cfg.range_size < 0)
    THEN [status |-> END_OF_FILE, queue |-> <<>>, stats |-> PqStatistics0]
    ELSE LET r == InitRowGroupsLoop(file, cfg, read_cols, 1, 0, <<>>, PqStatistics0)
         IN [status |-> IF r.queue = <<>> THEN END_OF_FILE ELSE OK,
             queue |-> r.queue, stats |-> r.stats]


\* ---- page index
RowRange(first, last) == [first_row |-> first, last_row |-> last]

\* _has_page_index / PageIndex::check_and_get_page_index_ranges: some chunk
\* of the row group carries a column index.
HasPageIndex(group) == \E c \in PqFileCols : group.columns[c].pages # <<>>

\* PageIndex::collect_skipped_page_range: the pages whose statistics prove
\* that none of their values lies in the value range.
PageProvesDisjoint(page, range) ==
    page.null_page \/ page.max < range.low \/ page.min > range.high

CollectSkippedPageRange(pages, range) ==
    SelectSeq([i \in DOMAIN pages |-> i], LAMBDA i : PageProvesDisjoint(pages[i], range))

\* PageIndex::create_skipped_row_range: the rows of a page, from the offset
\* index.
CreateSkippedRowRange(pages, num_rows, page_id) ==
    RowRange(pages[page_id].first_row,
             IF page_id = Len(pages) THEN num_rows ELSE pages[page_id + 1].first_row)

\* The skipped row ranges one read column adds (the body of the loop over
\* _read_table_columns).
SkippedRangesOfColumn(file, cfg, group, col) ==
    IF \/ col \notin DOMAIN cfg.colname_to_value_range
       \/ PqIsComplex(file, col)
       \/ group.columns[col].pages = <<>>
    THEN <<>>
    ELSE LET pages == group.columns[col].pages
             skipped_page_range ==
                 CollectSkippedPageRange(pages, cfg.colname_to_value_range[col])
         IN [i \in DOMAIN skipped_page_range |->
                CreateSkippedRowRange(pages, group.num_rows, skipped_page_range[i])]

\* A variant that collects the skipped ranges of the first read column only.
SkippedRowRangesFirstColumn(file, cfg, group, read_cols, idx) ==
    IF idx > 1 \/ read_cols = <<>> THEN <<>>
    ELSE SkippedRangesOfColumn(file, cfg, group, read_cols[1])

RECURSIVE SkippedRowRanges(_, _, _, _, _)
SkippedRowRanges(file, cfg, group, read_cols, idx) ==
    IF idx > Len(read_cols) THEN <<>>
    ELSE SkippedRangesOfColumn(file, cfg, group, read_cols[idx])
         \o SkippedRowRanges(file, cfg, group, read_cols, idx + 1)

\* std::sort by (first_row, last_row)
RangeLess(l, r) ==
    l.first_row < r.first_row \/ (l.first_row = r.first_row /\ l.last_row < r.last_row)

RECURSIVE InsertRange(_, _)
InsertRange(r, sorted) ==
    IF sorted = <<>> THEN <<r>>
    ELSE IF RangeLess(r, Head(sorted)) THEN <<r>> \o sorted
    ELSE <<Head(sorted)>> \o InsertRange(r, Tail(sorted))

RECURSIVE SortRanges(_)
SortRanges(s) == IF s = <<>> THEN <<>> ELSE InsertRange(Head(s), SortRanges(Tail(s)))

\* The loop over the sorted skipped ranges: the candidate ranges between
\* them, the rows they hold and the end of the last skipped range.
RECURSIVE CandidateLoop(_, _, _, _)
CandidateLoop(skipped, skip_end, candidates, read_rows) ==
    IF skipped = <<>>
    THEN [skip_end |-> skip_end, candidates |-> candidates, read_rows |-> read_rows]
    ELSE LET skip_range == Head(skipped) IN
         IF skip_end >= skip_range.first_row
         THEN CandidateLoop(Tail(skipped),
                  IF skip_end < skip_range.last_row THEN skip_range.last_row ELSE skip_end,
                  candidates, read_rows)
         ELSE CandidateLoop(Tail(skipped), skip_range.last_row,
                  Append(candidates, RowRange(skip_end, skip_range.first_row)),
                  read_rows + (skip_range.first_row - skip_end))

\* A variant that forgets the rows after the last skipped range.
CandidateRowRangesNoTail(skipped_sorted, num_rows) ==
    LET l == CandidateLoop(skipped_sorted, 0, <<>>, 0) IN
    [candidates |-> l.candidates, read_rows |-> l.read_rows]

\* A variant that adds the range after the last skipped range even when it
\* has no row.
CandidateRowRangesAlwaysTail(skipped_sorted, num_rows) ==
    LET l == CandidateLoop(skipped_sorted, 0, <<>>, 0) IN
    [candidates |-> Append(l.candidates, RowRange(l.skip_end, num_rows)),
     read_rows |-> l.read_rows + (num_rows - l.skip_end)]

CandidateRowRanges(skipped_sorted, num_rows) ==
    LET l == CandidateLoop(skipped_sorted, 0, <<>>, 0) IN
    IF l.skip_end # num_rows
    THEN [candidates |-> Append(l.candidates, RowRange(l.skip_end, num_rows)),
          read_rows |-> l.read_rows + (num_rows - l.skip_end)]
    ELSE [candidates |-> l.candidates, read_rows |-> l.read_rows]

\* Outcomes of the reads and parses of the page index.
PqIoOutcomes == {"ok", "read_error", "parse_error"}

\* _process_page_index: status, candidate_row_ranges and _statistics.
ProcessPageIndex(file, cfg, ctx, read_cols, group, row_group_index, stats, stop, io) ==
    LET whole == [status |-> OK,
                  candidate_row_ranges |-> <<RowRange(0, group.num_rows)>>,
                  stats |-> [stats EXCEPT !.read_rows = @ + group.num_rows]]
        fail(st) == [status |-> st, candidate_row_ranges |-> <<>>, stats |-> stats]
        skipped == SkippedRowRanges(file, cfg, group, read_cols, 1)
        \* parse_column_index is reached for a read column with a value range
        \* and a column index
        parses == \E i \in DOMAIN read_cols :
                     /\ read_cols[i] \in DOMAIN cfg.colname_to_value_range
                     /\ ~PqIsComplex(file, read_cols[i])
                     /\ group.columns[read_cols[i]].pages # <<>>
    IN
    IF stop THEN fail(END_OF_FILE)
    ELSE IF ReadLineMode(cfg)
    THEN [status |-> OK,
          candidate_row_ranges |->
              ReadLineModeRowRanges(file, cfg, row_group_index.row_group_id),
          stats |-> stats]
    ELSE IF \/ ~cfg.enable_filter_by_min_max
            \/ ctx.has_complex_type
            \/ ctx.conjunct_cols = {}
            \/ DOMAIN cfg.colname_to_value_range = {}
    THEN whole
    ELSE IF ~cfg.enable_parquet_page_index \/ ~HasPageIndex(group) THEN whole
    ELSE IF io = "read_error" THEN fail(ERROR)
    ELSE IF io = "parse_error" /\ parses THEN fail(ERROR)
    ELSE IF skipped = <<>> THEN whole
    ELSE LET c == CandidateRowRanges(SortRanges(skipped), group.num_rows) IN
         [status |-> OK, candidate_row_ranges |-> c.candidates,
          stats |-> [stats EXCEPT
                        !.read_rows = @ + c.read_rows,
                        !.filtered_page_rows = @ + (group.num_rows - c.read_rows)]]

\* ---- _get_position_delete_ctx
\* std::lower_bound on delete_rows[from..]: the first index (from 0) whose
\* entry is not less than v
RECURSIVE LowerBound(_, _, _)
LowerBound(rows, from, v) ==
    IF from >= Len(rows) THEN Len(rows)
    ELSE IF rows[from + 1] >= v THEN from
    ELSE LowerBound(rows, from + 1, v)

GetPositionDeleteCtx(cfg, index, delete_rows_index) ==
    IF cfg.delete_rows = NoDeletes
    THEN [has_deletes |-> FALSE, start_index |-> 0, end_index |-> 0,
          delete_rows_index |-> delete_rows_index]
    ELSE LET start_index == LowerBound(cfg.delete_rows, delete_rows_index, index.first_row)
             end_index == LowerBound(cfg.delete_rows, start_index, index.last_row)
         IN [has_deletes |-> TRUE, start_index |-> start_index, end_index |-> end_index,
             delete_rows_index |-> end_index]

\* ---- RowGroupReader (row_group_reader.cpp): the rows of the candidate
\* ranges, in order, without the position-deleted ones.
RECURSIVE RowsOfRanges(_)
RowsOfRanges(ranges) ==
    IF ranges = <<>> THEN <<>>
    ELSE LET r == Head(ranges) IN
         [i \in 1..(r.last_row - r.first_row) |-> r.first_row + i - 1]
         \o RowsOfRanges(Tail(ranges))

NoReader == [row_group_id |-> 0]

NewRowGroupReader(cfg, index, group, ranges, dctx) ==
    LET deleted == IF dctx.has_deletes
                   THEN {cfg.delete_rows[i] - index.first_row :
                            i \in (dctx.start_index + 1)..dctx.end_index}
                   ELSE {}
    IN [row_group_id |-> index.row_group_id,
        first_row |-> index.first_row,
        rows |-> RowsOfRanges(ranges),
        deleted |-> deleted,
        remaining_rows |-> group.num_rows]

SeqTake(s, n) == SubSeq(s, 1, IF n < Len(s) THEN n ELSE Len(s))
SeqDrop(s, n) == SubSeq(s, (IF n < Len(s) THEN n ELSE Len(s)) + 1, Len(s))

\* ---- _next_row_group_reader on the state st of the reader
NextRowGroupReader(file, cfg, ctx, read_cols, st, stop, io, init_status) ==
    IF st.queue = <<>>
    THEN [status |-> END_OF_FILE,
          st |-> [st EXCEPT !.row_group_eof = TRUE, !.reader = NoReader]]
    ELSE
      LET row_group_index == Head(st.queue)
          row_group == file.row_groups[row_group_index.row_group_id]
          popped == [st EXCEPT !.queue = Tail(@)]
          pi == ProcessPageIndex(file, cfg, ctx, read_cols, row_group, row_group_index,
                                 st.stats, stop, io)
      IN
      IF pi.status # OK
      THEN [status |-> pi.status, st |-> popped]
      ELSE
        LET dctx == GetPositionDeleteCtx(cfg, row_group_index, st.delete_rows_index)
        IN [status |-> init_status,
            st |-> [popped EXCEPT
                      !.stats = pi.stats,
                      !.delete_rows_index = dctx.delete_rows_index,
                      !.reader = NewRowGroupReader(cfg, row_group_index, row_group,
                                                   pi.candidate_row_ranges, dctx),
                      !.row_group_eof = FALSE,
                      !.opened = Append(@, [row_group_id |-> row_group_index.row_group_id,
                                            candidate_row_ranges |-> pi.candidate_row_ranges])]]


\* ---- set_fill_columns (ParquetReader): _lazy_read_ctx from the read
\* columns, the slots of the conjuncts, and the partition and missing
\* columns of the caller.
LazyReadContext0 ==
    [conjunct_cols |-> {}, all_read_columns |-> <<>>, has_complex_type |-> FALSE,
     predicate_columns |-> <<>>, lazy_read_columns |-> <<>>,
     partition_columns |-> {}, predicate_partition_columns |-> {},
     missing_columns |-> {}, predicate_missing_columns |-> {},
     can_lazy_read |-> FALSE]

\* A variant that takes every read column for a lazy column.
LazyReadColumnsAll(read_table_columns, predicate_columns) ==
    IF predicate_columns # {} THEN read_table_columns ELSE <<>>

\* lazy_read_columns: the read columns no conjunct refers to
LazyReadColumns(read_table_columns, predicate_columns) ==
    IF predicate_columns # {}
    THEN SelectSeq(read_table_columns, LAMBDA c : c \notin predicate_columns)
    ELSE <<>>

\* A variant of can_lazy_read that ignores _enable_lazy_mat.
CanLazyReadAlways(enable_lazy_mat, predicate_columns, lazy_read_columns) ==
    Len(predicate_columns) > 0 /\ Len(lazy_read_columns) > 0

\* can_lazy_read of set_fill_columns (vparquet_reader.cpp 456-459,
\* vorc_reader.cpp 1050-1053)
CanLazyRead(enable_lazy_mat, predicate_columns, lazy_read_columns) ==
    enable_lazy_mat /\ Len(predicate_columns) > 0 /\ Len(lazy_read_columns) > 0

ParquetSetFillColumns(read_table_columns, complex_cols, conjunct_cols, partition_columns, missing_columns, enable_lazy_mat) ==
    LET predicate_columns == conjunct_cols
        pred == IF predicate_columns # {}
                THEN SelectSeq(read_table_columns, LAMBDA c : c \in predicate_columns)
                ELSE <<>>
        lazy == LazyReadColumns(read_table_columns, predicate_columns)
        can_lazy_read == CanLazyRead(enable_lazy_mat, pred, lazy)
        pred_part == partition_columns \cap predicate_columns
        pred_miss == missing_columns \cap predicate_columns
    IN [conjunct_cols |-> conjunct_cols,
        all_read_columns |-> read_table_columns,
        has_complex_type |-> \E c \in Seq2Set(read_table_columns) : c \in complex_cols,
        predicate_columns |-> pred,
        lazy_read_columns |-> lazy,
        partition_columns |-> (partition_columns \ predicate_columns)
                              \cup (IF can_lazy_read THEN {} ELSE pred_part),
        predicate_partition_columns |-> pred_part,
        missing_columns |-> (missing_columns \ predicate_columns)
                            \cup (IF can_lazy_read THEN {} ELSE pred_miss),
        predicate_missing_columns |-> pred_miss,
        can_lazy_read |-> can_lazy_read]

\* ---- RowGroupReader::next_batch: the next _batch_size candidate rows
\* without the deleted ones, and whether the row group is at its end.
RowGroupNextBatch(reader, batch_size) ==
    LET taken == SeqTake(reader.rows, batch_size)
        kept == SelectSeq(taken, LAMBDA r : r \notin reader.deleted)
        rest == SeqDrop(reader.rows, batch_size)
    IN [rows |-> [i \in DOMAIN kept |-> reader.first_row + kept[i]],
        reader |-> [reader EXCEPT !.rows = rest],
        batch_eof |-> rest = <<>>]

Min(a, b) == IF a < b THEN a ELSE b

PqRet(status, eof, read_rows) == [status |-> status, eof |-> eof, read_rows |-> read_rows]

\* The part of the reader's state get_next_block and _next_row_group_reader
\* work on.
PqScanState ==
    [queue |-> pq_read_row_groups, reader |-> pq_current_group_reader,
     row_group_eof |-> pq_row_group_eof, stats |-> pq_statistics,
     delete_rows_index |-> pq_delete_rows_index, opened |-> pq_opened]

\* ---- get_next_block: the state and the results it leaves; io, init_status
\* and batch_status are the outcomes of the reads it makes.
\* A variant that reports eof at the end of every row group.
EofAtEveryRowGroupEnd(read_row_groups) == TRUE

\* *eof at the end of a row group: no row group is left in the queue
EofAfterRowGroup(read_row_groups) == read_row_groups = <<>>

GetNextBlockBody(cfg, ret0, stop, batch_status, need_next, n, st) ==
    IF need_next /\ n.status \notin {OK, END_OF_FILE}
    THEN [st |-> st, ret |-> PqRet(ERROR, ret0.eof, ret0.read_rows), rows |-> <<>>]
    ELSE IF need_next /\ (st.reader = NoReader \/ st.row_group_eof \/ n.status = END_OF_FILE)
    THEN [st |-> [st EXCEPT !.reader = NoReader, !.row_group_eof = TRUE],
          ret |-> PqRet(OK, TRUE, 0), rows |-> <<>>]
    ELSE IF cfg.push_down_agg_count
    THEN LET rows == Min(st.reader.remaining_rows, PqBatchSize)
             left == st.reader.remaining_rows - rows
         IN [st |-> [st EXCEPT !.reader = IF left = 0 THEN NoReader
                                          ELSE [@ EXCEPT !.remaining_rows = left]],
             ret |-> PqRet(OK, ret0.eof, rows),
             rows |-> [i \in 1..rows |-> NULL]]
    ELSE IF stop
    THEN \* next_batch returns END_OF_FILE: a read saw the stop flag
         [st |-> [st EXCEPT !.reader = NoReader],
          ret |-> PqRet(OK, TRUE, 0), rows |-> <<>>]
    ELSE IF batch_status # OK
    THEN [st |-> st, ret |-> PqRet(ERROR, ret0.eof, ret0.read_rows), rows |-> <<>>]
    ELSE LET b == RowGroupNextBatch(st.reader, PqBatchSize) IN
         [st |-> [st EXCEPT !.reader = b.reader, !.row_group_eof = b.batch_eof],
          ret |-> PqRet(OK,
                        IF b.batch_eof THEN EofAfterRowGroup(st.queue) ELSE ret0.eof,
                        Len(b.rows)),
          rows |-> b.rows]

GetNextBlockWith(cfg, ret0, stop, batch_status, need_next, n) ==
    GetNextBlockBody(cfg, ret0, stop, batch_status, need_next, n, n.st)

GetNextBlock(file, cfg, ctx, read_cols, st0, ret0, stop, io, init_status, batch_status) ==
    GetNextBlockWith(cfg, ret0, stop, batch_status,
        st0.reader = NoReader \/ st0.row_group_eof,
        IF st0.reader = NoReader \/ st0.row_group_eof
        THEN NextRowGroupReader(file, cfg, ctx, read_cols, st0, stop, io, init_status)
        ELSE [status |-> OK, st |-> st0])

\* ---- the state machine of a ParquetReader
PqRet0 == PqRet(OK, FALSE, 0)

PqIdle ==
    /\ pq_file = [row_groups |-> <<>>, y_complex |-> FALSE]
    /\ pq_cfg = PqCfg(PqNoRanges, {}, FALSE, FALSE, 0, 0, NoDeletes, FALSE)
    /\ pq_pc = "idle"
    /\ pq_read_table_columns = <<>>
    /\ pq_missing_cols = <<>>
    /\ pq_read_row_groups = <<>>
    /\ pq_current_group_reader = NoReader
    /\ pq_row_group_eof = FALSE
    /\ pq_statistics = PqStatistics0
    /\ pq_delete_rows_index = 0
    /\ pq_should_stop = FALSE
    /\ pq_ret = PqRet0
    /\ pq_emitted = <<>>
    /\ pq_opened = <<>>
    /\ pq_failed = FALSE
    /\ pq_lazy_read_ctx = LazyReadContext0

PqInit ==
    /\ \/ pq_file \in PqPruneFiles /\ pq_cfg \in PqPruneCfgs
       \/ pq_file \in PqScanFiles /\ pq_cfg \in PqScanCfgs
    /\ pq_pc = "unopened"
    /\ pq_read_table_columns = <<>>
    /\ pq_missing_cols = <<>>
    /\ pq_read_row_groups = <<>>
    /\ pq_current_group_reader = NoReader
    /\ pq_row_group_eof = FALSE
    /\ pq_statistics = PqStatistics0
    /\ pq_delete_rows_index = 0
    /\ pq_should_stop = FALSE
    /\ pq_ret = PqRet0
    /\ pq_emitted = <<>>
    /\ pq_opened = <<>>
    /\ pq_failed = FALSE
    /\ pq_lazy_read_ctx = LazyReadContext0

\* Readers of the files with one row group, and readers in read-line mode
PqReadLinesInit ==
    /\ \/ pq_file \in PqPruneFiles /\ pq_cfg \in PqPruneCfgs
       \/ pq_file \in PqScanFiles /\ pq_cfg \in PqReadLineCfgs
    /\ pq_pc = "unopened"
    /\ pq_read_table_columns = <<>>
    /\ pq_missing_cols = <<>>
    /\ pq_read_row_groups = <<>>
    /\ pq_current_group_reader = NoReader
    /\ pq_row_group_eof = FALSE
    /\ pq_statistics = PqStatistics0
    /\ pq_delete_rows_index = 0
    /\ pq_should_stop = FALSE
    /\ pq_ret = PqRet0
    /\ pq_emitted = <<>>
    /\ pq_opened = <<>>
    /\ pq_failed = FALSE
    /\ pq_lazy_read_ctx = LazyReadContext0

\* Readers with position deletes
PqDeletesInit ==
    /\ pq_file \in PqScanFiles /\ pq_cfg \in PqDeleteCfgs
    /\ pq_pc = "unopened"
    /\ pq_read_table_columns = <<>>
    /\ pq_missing_cols = <<>>
    /\ pq_read_row_groups = <<>>
    /\ pq_current_group_reader = NoReader
    /\ pq_row_group_eof = FALSE
    /\ pq_statistics = PqStatistics0
    /\ pq_delete_rows_index = 0
    /\ pq_should_stop = FALSE
    /\ pq_ret = PqRet0
    /\ pq_emitted = <<>>
    /\ pq_opened = <<>>
    /\ pq_failed = FALSE
    /\ pq_lazy_read_ctx = LazyReadContext0

\* ParquetReader::init_reader
PqInitReader ==
    /\ pq_pc = "unopened"
    /\ \E read_cols \in {PqReadTableColumns(pq_cfg.all_column_names)} :
       \E r \in {InitRowGroups(pq_file, pq_cfg, read_cols)} :
       \E status \in {IF Len(pq_file.row_groups) = 0 THEN END_OF_FILE ELSE r.status} :
          /\ pq_read_table_columns' = read_cols
          /\ pq_missing_cols' = PqMissingCols(pq_cfg.all_column_names)
          /\ pq_read_row_groups' = r.queue
          /\ pq_statistics' = r.stats
          /\ pq_ret' = PqRet(status, FALSE, 0)
          /\ pq_pc' = IF status = OK THEN "inited" ELSE "closed"
          /\ pq_lazy_read_ctx' = [pq_lazy_read_ctx EXCEPT !.conjunct_cols = pq_cfg.conjunct_cols]
    /\ UNCHANGED <<pq_file, pq_cfg, pq_current_group_reader, pq_row_group_eof,
                   pq_delete_rows_index, pq_should_stop, pq_emitted, pq_opened,
                   pq_failed>>
    /\ UNCHANGED <<savars, flvars, pdvars, ocvars, dcvars, dmvars, tailvars>>

\* ParquetReader::set_fill_columns, with the missing columns of get_columns
\* and no partition column
PqSetFillColumns ==
    /\ pq_pc = "inited"
    /\ pq_lazy_read_ctx' =
           ParquetSetFillColumns(pq_read_table_columns,
                                 IF pq_file.y_complex THEN {"y"} ELSE {},
                                 pq_lazy_read_ctx.conjunct_cols, {},
                                 Seq2Set(pq_missing_cols), TRUE)
    /\ pq_pc' = "ready"
    /\ pq_ret' = PqRet0
    /\ UNCHANGED <<pq_file, pq_cfg, pq_read_table_columns, pq_missing_cols,
                   pq_read_row_groups, pq_current_group_reader, pq_row_group_eof,
                   pq_statistics, pq_delete_rows_index, pq_should_stop,
                   pq_emitted, pq_opened, pq_failed>>
    /\ UNCHANGED <<savars, flvars, pdvars, ocvars, dcvars, dmvars, tailvars>>

\* ParquetReader::get_next_block
PqGetNextBlock ==
    /\ pq_pc = "ready"
    /\ \E io \in PqIoOutcomes, init_status \in {OK, ERROR}, batch_status \in {OK, ERROR} :
         \E g \in {GetNextBlock(pq_file, pq_cfg, pq_lazy_read_ctx, pq_read_table_columns,
                                 PqScanState, pq_ret, pq_should_stop, io, init_status,
                                 batch_status)} :
            /\ pq_read_row_groups' = g.st.queue
            /\ pq_current_group_reader' = g.st.reader
            /\ pq_row_group_eof' = g.st.row_group_eof
            /\ pq_statistics' = g.st.stats
            /\ pq_delete_rows_index' = g.st.delete_rows_index
            /\ pq_opened' = g.st.opened
            /\ pq_ret' = g.ret
            /\ pq_emitted' = pq_emitted \o g.rows
            /\ pq_failed' = (pq_failed \/ g.ret.status = ERROR)
    /\ UNCHANGED <<pq_file, pq_cfg, pq_pc, pq_read_table_columns, pq_missing_cols,
                   pq_should_stop, pq_lazy_read_ctx>>
    /\ UNCHANGED <<savars, flvars, pdvars, ocvars, dcvars, dmvars, tailvars>>

\* The query is cancelled: _io_ctx->should_stop is set.
PqRequestStop ==
    /\ pq_pc = "ready"
    /\ ~pq_should_stop
    /\ pq_should_stop' = TRUE
    /\ UNCHANGED <<pq_file, pq_cfg, pq_pc, pq_read_table_columns, pq_missing_cols,
                   pq_read_row_groups, pq_current_group_reader, pq_row_group_eof,
                   pq_statistics, pq_delete_rows_index, pq_ret, pq_emitted,
                   pq_opened, pq_failed, pq_lazy_read_ctx>>
    /\ UNCHANGED <<savars, flvars, pdvars, ocvars, dcvars, dmvars, tailvars>>

PqNext == PqInitReader \/ PqSetFillColumns \/ PqGetNextBlock \/ PqRequestStop


\* ---- properties of the ParquetReader
\* The statistics [mn, mx] prove that no value lies in the value range.
PqMinMaxDisjoint(mn, mx, range) == mx < range.low \/ mn > range.high

\* The rows of an opened row group (relative to its first row) that lie in
\* none of its candidate ranges.
PqSkippedRows(o) ==
    {r \in 0..(pq_file.row_groups[o.row_group_id].num_rows - 1) :
        ~\E i \in DOMAIN o.candidate_row_ranges :
            /\ o.candidate_row_ranges[i].first_row <= r
            /\ r < o.candidate_row_ranges[i].last_row}

\* The page of a chunk that holds row r.
PqPageOf(pages, r) ==
    CHOOSE i \in DOMAIN pages :
        /\ pages[i].first_row <= r
        /\ (i = Len(pages) \/ r < pages[i + 1].first_row)

\* Some predicate column has a page index whose page of row r is all null or
\* has min/max outside the column's value range.
PqRowProvedDisjoint(group, r) ==
    \E c \in DOMAIN pq_cfg.colname_to_value_range :
        /\ c \in pq_cfg.conjunct_cols
        /\ c \in PqFileCols
        /\ group.columns[c].pages # <<>>
        /\ LET pg == group.columns[c].pages[PqPageOf(group.columns[c].pages, r)]
           IN pg.null_page
              \/ PqMinMaxDisjoint(pg.min, pg.max, pq_cfg.colname_to_value_range[c])

\* Some predicate column's chunk statistics prove that none of its values
\* lies in the column's value range.
PqGroupProvedDisjoint(group) ==
    \E c \in DOMAIN pq_cfg.colname_to_value_range :
        /\ c \in PqFileCols
        /\ LET st == group.columns[c].statistics
           IN st.is_all_null
              \/ (st.is_set_min_max
                  /\ PqMinMaxDisjoint(st.min, st.max, pq_cfg.colname_to_value_range[c]))

PqQueuedIds == {pq_read_row_groups[i].row_group_id : i \in DOMAIN pq_read_row_groups}
PqOpenedIds == {pq_opened[i].row_group_id : i \in DOMAIN pq_opened}

\* C2: a row range is left out of the candidate ranges of a row group, and
\* a row group of the scan range is left out of the read queue by the row
\* group filter, only when the statistics of some predicate column prove that
\* none of its values lies in that column's value range.
C2_SkipOnlyWhenStatsProveDisjoint ==
    /\ \A i \in DOMAIN pq_opened :
          \A r \in PqSkippedRows(pq_opened[i]) :
              PqRowProvedDisjoint(pq_file.row_groups[pq_opened[i].row_group_id], r)
    /\ pq_pc = "inited" =>
          \A idx \in DOMAIN pq_file.row_groups :
              (/\ ~IsMisalignedRangeGroup(pq_cfg, pq_file.row_groups[idx])
               /\ idx \notin PqQueuedIds)
                  => PqGroupProvedDisjoint(pq_file.row_groups[idx])

\* C2 happens: a row group was opened with some, but not all, of its rows
\* left out of the candidate ranges.
C2_Witness ==
    \E i \in DOMAIN pq_opened :
        /\ PqSkippedRows(pq_opened[i]) # {}
        /\ pq_opened[i].candidate_row_ranges # <<>>

\* The row groups of scenario A: the chunk statistics of read column x are
\* min = 10 and max = 20 and usable, the value range of x is x > 25 and
\* min/max filtering is enabled.
PqScenarioAGroups ==
    {idx \in DOMAIN pq_file.row_groups :
        /\ pq_cfg.enable_filter_by_min_max
        /\ "x" \in DOMAIN pq_cfg.colname_to_value_range
        /\ pq_cfg.colname_to_value_range["x"] = PqValueRange(26, 99)
        /\ ~IsMisalignedRangeGroup(pq_cfg, pq_file.row_groups[idx])
        /\ pq_file.row_groups[idx].columns["x"].statistics
               = PqStat(TRUE, 10, 20, FALSE, TRUE, FALSE)}

\* C3: once init_reader has run, a row group of scenario A is not in the read
\* queue and is counted as filtered; it is never handed to a row group reader
\* (no page index read) and none of its rows is emitted.
C3_ScenarioAGroupFiltered ==
    pq_pc # "unopened" =>
        \A idx \in PqScenarioAGroups :
            /\ idx \notin PqQueuedIds
            /\ idx \notin PqOpenedIds
            /\ pq_statistics.filtered_row_groups >= 1
            /\ pq_emitted = <<>>

\* The current row group has rows left.
PqRowsLeft ==
    /\ pq_current_group_reader # NoReader
    /\ IF pq_cfg.push_down_agg_count
       THEN pq_current_group_reader.remaining_rows > 0
       ELSE pq_current_group_reader.rows # <<>>

\* The row groups _init_row_groups selected.
PqSelectedIds ==
    LET q == InitRowGroups(pq_file, pq_cfg, pq_read_table_columns).queue
    IN {q[i].row_group_id : i \in DOMAIN q}

\* The rows of the candidate ranges of the opened row groups, as row ids of
\* the file, without the position-deleted ones.
PqRowsToRead ==
    UNION {{LET first == SumNumRows(pq_file.row_groups, pq_opened[i].row_group_id - 1)
            IN first + r :
                r \in Seq2Set(RowsOfRanges(pq_opened[i].candidate_row_ranges))} :
           i \in DOMAIN pq_opened}
    \ (IF pq_cfg.delete_rows = NoDeletes THEN {} ELSE Seq2Set(pq_cfg.delete_rows))

\* C10: when no stop was requested, get_next_block has reported eof only if
\* the read queue is empty and the current row group has no rows left; and
\* if no call failed, every row group selected by _init_row_groups was opened
\* and read to its end.
C10_EofOnlyAfterAllRowGroupsRead ==
    (pq_pc = "ready" /\ pq_ret.status = OK /\ pq_ret.eof /\ ~pq_should_stop)
        => /\ pq_read_row_groups = <<>>
           /\ ~PqRowsLeft
           /\ ~pq_failed =>
                /\ PqOpenedIds = PqSelectedIds
                /\ IF pq_cfg.push_down_agg_count
                   THEN Len(pq_emitted) =
                            SumNumRows([i \in DOMAIN pq_opened |->
                                           pq_file.row_groups[pq_opened[i].row_group_id]],
                                       Len(pq_opened))
                   ELSE Seq2Set(pq_emitted) = PqRowsToRead

\* C10 happens: eof was reported without a stop or an error after
\* PqMaxGroups row groups were read in more than one batch each.
C10_Witness ==
    /\ pq_pc = "ready" /\ pq_ret.status = OK /\ pq_ret.eof
    /\ ~pq_should_stop /\ ~pq_failed
    /\ Len(pq_opened) = PqMaxGroups
    /\ Len(pq_emitted) > PqMaxGroups * PqBatchSize
    /\ ~pq_cfg.push_down_agg_count

\* C11: once get_next_block has returned OK with eof = true, the next call
\* of get_next_block on the same reader (and so every later one) returns OK
\* with eof = true and read_rows = 0 and emits no row, however eof was
\* reached.
C11_ExhaustedIsTerminal ==
    [][(pq_pc = "ready" /\ pq_ret.status = OK /\ pq_ret.eof /\ PqGetNextBlock)
          => (/\ pq_ret'.status = OK /\ pq_ret'.eof /\ pq_ret'.read_rows = 0
              /\ pq_emitted' = pq_emitted)]_vars

\* C11 happens: the stop flag was set before the first call, the first call
\* took a row group from the queue and reported eof, and a later call took
\* the other one and reported eof again.
C11_Witness ==
    /\ pq_pc = "ready" /\ pq_ret.status = OK /\ pq_ret.eof /\ pq_ret.read_rows = 0
    /\ pq_should_stop /\ ~pq_failed
    /\ Cardinality(PqSelectedIds) = PqMaxGroups
    /\ pq_read_row_groups = <<>> /\ pq_opened = <<>>

\* The selected row groups that were taken from the queue and never opened
\* while a later row group was opened.
PqSkippedRowGroups ==
    {id \in PqSelectedIds :
        /\ id \notin PqQueuedIds /\ id \notin PqOpenedIds
        /\ \E later \in PqOpenedIds : later > id}

\* C12: after get_next_block has returned an error status that is not
\* END_OF_FILE, no later call of get_next_block on the same reader returns
\* OK with rows, and no selected row group is left unread while a later one
\* is opened.
C12_FailedIsTerminal ==
    /\ [][(pq_failed /\ PqGetNextBlock)
             => ~(pq_ret'.status = OK /\ pq_ret'.read_rows > 0)]_vars
    /\ [](pq_pc = "ready" => PqSkippedRowGroups = {})

\* The row group that holds row r of the file.
PqGroupOfRow(r) ==
    CHOOSE idx \in DOMAIN pq_file.row_groups :
        /\ SumNumRows(pq_file.row_groups, idx - 1) <= r
        /\ r < SumNumRows(pq_file.row_groups, idx)

C14_StopReturnsEofWithoutRows ==
    [][(pq_pc = "ready" /\ pq_should_stop /\ PqGetNextBlock)
          => (/\ pq_ret'.status = OK /\ pq_ret'.eof /\ pq_ret'.read_rows = 0
              /\ pq_emitted' = pq_emitted)]_vars

\* The predicate columns of a row group that have a page index.
PqPageIndexColumns(group) ==
    {c \in (DOMAIN pq_cfg.colname_to_value_range) \cap PqFileCols :
        ~PqIsComplex(pq_file, c) /\ group.columns[c].pages # <<>>}

\* The page index of column c skips row r: the page of r is all null or has
\* min/max outside the value range of c.
PqColumnSkips(group, c, r) ==
    LET pg == group.columns[c].pages[PqPageOf(group.columns[c].pages, r)]
    IN pg.null_page \/ PqMinMaxDisjoint(pg.min, pg.max, pq_cfg.colname_to_value_range[c])

\* _process_page_index consults the page index of the row group.
PqPageIndexApplies(group) ==
    /\ pq_cfg.enable_filter_by_min_max
    /\ ~pq_lazy_read_ctx.has_complex_type
    /\ pq_lazy_read_ctx.conjunct_cols # {}
    /\ DOMAIN pq_cfg.colname_to_value_range # {}
    /\ pq_cfg.enable_parquet_page_index
    /\ HasPageIndex(group)

PqGroupRowIds(o) == 0..(pq_file.row_groups[o.row_group_id].num_rows - 1)

\* C17: when several predicate columns of an opened row group have a page
\* index, a row that the page index of at least one of them does not skip is
\* in candidate_row_ranges (the candidate set is the union of the rows kept
\* per column).
C17_CandidatesAreUnionOfKept ==
    \A i \in DOMAIN pq_opened :
        LET o == pq_opened[i]
            group == pq_file.row_groups[o.row_group_id]
        IN Cardinality(PqPageIndexColumns(group)) >= 2 =>
              \A r \in PqGroupRowIds(o) :
                  (\E c \in PqPageIndexColumns(group) : ~PqColumnSkips(group, c, r))
                      => r \notin PqSkippedRows(o)

\* C17 (amended): when _process_page_index consults the page index of an
\* opened row group, a row is in candidate_row_ranges if and only if the
\* page index of no predicate column skips it (the candidate set is the
\* intersection of the rows kept per column).
C17_CandidatesAreIntersectionOfKept ==
    \A i \in DOMAIN pq_opened :
        LET o == pq_opened[i]
            group == pq_file.row_groups[o.row_group_id]
        IN PqPageIndexApplies(group) =>
              \A r \in PqGroupRowIds(o) :
                  (r \notin PqSkippedRows(o))
                      <=> (\A c \in PqPageIndexColumns(group) : ~PqColumnSkips(group, c, r))

\* C17 happens: a row group with two page-indexed predicate columns was
\* opened; some row is skipped by one column only and is not a candidate,
\* and some row is a candidate.
C17_Witness ==
    \E i \in DOMAIN pq_opened :
        LET o == pq_opened[i]
            group == pq_file.row_groups[o.row_group_id]
        IN /\ PqPageIndexApplies(group)
           /\ Cardinality(PqPageIndexColumns(group)) = 2
           /\ \E r \in PqSkippedRows(o) :
                 \E c \in PqPageIndexColumns(group) : ~PqColumnSkips(group, c, r)
           /\ PqSkippedRows(o) # PqGroupRowIds(o)

\* The chunk statistics of column c of a row group give no usable min/max:
\* they are absent, or every value of the chunk is null.
PqNoMinMaxOrAllNull(group, c) ==
    LET st == group.columns[c].statistics IN ~st.is_set_min_max \/ st.is_all_null

PqOpensWithPageIndex ==
    /\ pq_pc = "ready" /\ ~pq_should_stop
    /\ pq_current_group_reader = NoReader \/ pq_row_group_eof
    /\ pq_read_row_groups # <<>>
    /\ PqPageIndexApplies(pq_file.row_groups[Head(pq_read_row_groups).row_group_id])

\* C23: when the read of the column index or of the offset index fails, or
\* the parse of a column index fails, while get_next_block opens a row group,
\* the row group is opened with the candidate range [0, num_rows) and the
\* call does not return an error (the row group reader and its reads
\* succeeding).
C23_PageIndexFailureReadsWholeRowGroup ==
    PqOpensWithPageIndex =>
        \A io \in PqIoOutcomes \ {"ok"} :
            LET num_rows == pq_file.row_groups[Head(pq_read_row_groups).row_group_id].num_rows
                g == GetNextBlock(pq_file, pq_cfg, pq_lazy_read_ctx, pq_read_table_columns,
                                  PqScanState, pq_ret, pq_should_stop, io, OK, OK)
            IN /\ g.ret.status = OK
               /\ Len(g.st.opened) = Len(pq_opened) + 1
               /\ g.st.opened[Len(g.st.opened)].candidate_row_ranges
                      = <<RowRange(0, num_rows)>>

\* get_next_block opens a row group: _process_page_index returned OK.
PqOpensRowGroup == Len(pq_opened') = Len(pq_opened) + 1 /\ PqGetNextBlock

\* C32: when _process_page_index returns OK for a row group of num_rows
\* rows, the ranges of candidate_row_ranges are not empty, lie in
\* [0, num_rows), ascend and leave at least one row between one and the
\* next; candidate_row_ranges is the one range [0, num_rows) when the page
\* index is not consulted (min/max filtering disabled, no conjunct, no
\* value range, a read column of complex type, page index absent or
\* disabled); and _statistics.read_rows and filtered_page_rows do not
\* shrink and grow by num_rows together.
C32_CandidateRowRangesWellFormed ==
    [][PqOpensRowGroup =>
          LET o == pq_opened'[Len(pq_opened')]
              group == pq_file.row_groups[o.row_group_id]
              ranges == o.candidate_row_ranges
          IN /\ \A i \in DOMAIN ranges :
                   /\ 0 <= ranges[i].first_row
                   /\ ranges[i].first_row < ranges[i].last_row
                   /\ ranges[i].last_row <= group.num_rows
             /\ \A i, j \in DOMAIN ranges :
                   i < j => ranges[i].last_row < ranges[j].first_row
             /\ ~PqPageIndexApplies(group) => ranges = <<RowRange(0, group.num_rows)>>
             /\ pq_statistics'.read_rows >= pq_statistics.read_rows
             /\ pq_statistics'.filtered_page_rows >= pq_statistics.filtered_page_rows
             /\ pq_statistics'.read_rows + pq_statistics'.filtered_page_rows
                   = pq_statistics.read_rows + pq_statistics.filtered_page_rows
                     + group.num_rows]_vars

\* The candidate ranges of the row group opened last are not empty, lie in
\* the row group and ascend; apart: the rows between one and the next.
PqRangesAscend(ranges, num_rows, apart) ==
    /\ \A i \in DOMAIN ranges :
          /\ 0 <= ranges[i].first_row
          /\ ranges[i].first_row < ranges[i].last_row
          /\ ranges[i].last_row <= num_rows
    /\ \A i, j \in DOMAIN ranges :
          i < j => ranges[i].last_row + apart <= ranges[j].first_row

\* C32 (amended): outside read-line mode, when _process_page_index
\* returns OK the candidate ranges and the statistics are as C32 says. In
\* read-line mode candidate_row_ranges holds a range of one row for every
\* row of _read_lines in the row group, ascending (two ranges may be
\* adjacent), whatever the filter settings, and the statistics are left as
\* they were.
C32_CandidateRowRangesOutsideReadLineMode ==
    [][PqOpensRowGroup =>
          LET o == pq_opened'[Len(pq_opened')]
              group == pq_file.row_groups[o.row_group_id]
              ranges == o.candidate_row_ranges
              first == PqFirstRow(pq_file, o.row_group_id)
          IN IF ReadLineMode(pq_cfg)
             THEN /\ PqRangesAscend(ranges, group.num_rows, 0)
                  /\ {first + ranges[i].first_row : i \in DOMAIN ranges}
                        = {v \in Seq2Set(pq_cfg.read_lines) :
                              first <= v /\ v < first + group.num_rows}
                  /\ \A i \in DOMAIN ranges : ranges[i].last_row = ranges[i].first_row + 1
                  /\ pq_statistics'.read_rows = pq_statistics.read_rows
                  /\ pq_statistics'.filtered_page_rows = pq_statistics.filtered_page_rows
             ELSE /\ PqRangesAscend(ranges, group.num_rows, 1)
                  /\ ~PqPageIndexApplies(group) => ranges = <<RowRange(0, group.num_rows)>>
                  /\ pq_statistics'.read_rows >= pq_statistics.read_rows
                  /\ pq_statistics'.filtered_page_rows >= pq_statistics.filtered_page_rows
                  /\ pq_statistics'.read_rows + pq_statistics'.filtered_page_rows
                        = pq_statistics.read_rows + pq_statistics.filtered_page_rows
                          + group.num_rows]_vars

\* C32 happens in read-line mode: a row group was opened with two adjacent
\* candidate ranges of one row each, and no row was counted.
C32_WitnessReadLines ==
    /\ ReadLineMode(pq_cfg)
    /\ \E i \in DOMAIN pq_opened :
          /\ Len(pq_opened[i].candidate_row_ranges) = 2
          /\ pq_opened[i].candidate_row_ranges[1].last_row
                = pq_opened[i].candidate_row_ranges[2].first_row
    /\ pq_statistics.read_rows = 0

\* C32 happens: a row group was opened with two candidate ranges around a
\* skipped page, and its rows were counted as read or as filtered by page.
C32_Witness ==
    \E i \in DOMAIN pq_opened :
        /\ PqPageIndexApplies(pq_file.row_groups[pq_opened[i].row_group_id])
        /\ Len(pq_opened[i].candidate_row_ranges) = 2
        /\ pq_statistics.read_rows = 2
        /\ pq_statistics.filtered_page_rows = PqGroupRows - 2

\* C32 happens too without the page index: a row group with a page index
\* was opened whole because the page index is disabled.
C32_WitnessWhole ==
    \E i \in DOMAIN pq_opened :
        LET group == pq_file.row_groups[pq_opened[i].row_group_id]
        IN /\ HasPageIndex(group) /\ ~pq_cfg.enable_parquet_page_index
           /\ pq_cfg.enable_filter_by_min_max
           /\ DOMAIN pq_cfg.colname_to_value_range # {}
           /\ pq_opened[i].candidate_row_ranges = <<RowRange(0, group.num_rows)>>
           /\ pq_statistics.read_rows = group.num_rows
           /\ pq_statistics.filtered_page_rows = 0

\* The entries of the position-delete list in the rows [first, last) of
\* the file
PqDeletesIn(first, last) ==
    {i \in DOMAIN pq_cfg.delete_rows :
        first <= pq_cfg.delete_rows[i] /\ pq_cfg.delete_rows[i] < last}

\* C40: when a row group is opened by a reader with an ascending
\* position-delete list, the deletes of its row group reader are the
\* entries d with first_row <= d < last_row (first_row: the rows of all
\* row groups of the file before it, misaligned ones included), as rows of
\* the row group; _delete_rows_index does not move backwards, and every
\* entry it has passed lies before last_row (no entry of a later row group
\* is passed).
C40_PositionDeleteCtxCoversRowGroup ==
    [][(PqOpensRowGroup /\ pq_cfg.delete_rows # NoDeletes) =>
          LET o == pq_opened'[Len(pq_opened')]
              first == PqFirstRow(pq_file, o.row_group_id)
              last == first + pq_file.row_groups[o.row_group_id].num_rows
          IN /\ pq_current_group_reader'.deleted =
                    {pq_cfg.delete_rows[i] - first : i \in PqDeletesIn(first, last)}
             /\ pq_delete_rows_index' >= pq_delete_rows_index
             /\ pq_delete_rows_index' <= Len(pq_cfg.delete_rows)
             /\ \A i \in 1..pq_delete_rows_index' : pq_cfg.delete_rows[i] < last
             /\ \A i \in PqDeletesIn(first, last) : i <= pq_delete_rows_index']_vars

\* C40 happens: the second row group of a file was opened by a reader
\* whose scan range leaves the first one out; the delete list has an entry
\* in the first row group, which the cursor passed, and the first row of
\* the second row group, which the row group reader deletes as its row 0.
C40_Witness ==
    /\ pq_cfg.delete_rows # NoDeletes
    /\ pq_current_group_reader # NoReader
    /\ pq_current_group_reader.row_group_id = 2
    /\ pq_opened # <<>> /\ pq_opened[1].row_group_id = 2
    /\ pq_current_group_reader.first_row = PqGroupRows
    /\ pq_cfg.delete_rows[1] < PqGroupRows
    /\ pq_current_group_reader.deleted = {0}
    /\ pq_delete_rows_index = 2

\* C40 happens for two row groups of one reader too: both were opened and
\* the delete list has an entry in each.
C40_WitnessTwoGroups ==
    /\ pq_cfg.delete_rows # NoDeletes
    /\ Len(pq_opened) = 2
    /\ pq_current_group_reader # NoReader
    /\ pq_current_group_reader.deleted # {}
    /\ pq_delete_rows_index = 2
    /\ pq_cfg.delete_rows[1] < pq_current_group_reader.first_row

\* ========================================================================
\* set_fill_columns of both readers
\* ========================================================================
\* The row columns of a transactional Hive table
\* (TransactionalHive::READ_ROW_COLUMN_NAMES_LOWER_CASE; one stands for all).
AcidRowColumns == {"rowid"}

\* _init_read_columns (OrcReader): the read columns in the order asked.
OrcReadTableCols(names) == SelectSeq(names, LAMBDA c : c \in FlFileCols)

\* OrcReader::set_fill_columns up to the creation of the row reader:
\* _lazy_read_ctx. has_conjuncts: _lazy_read_ctx.conjuncts is not empty.
OrcSetFillColumns(read_table_cols, conjunct_cols, has_conjuncts, partition_columns, missing_columns, enable_lazy_mat, is_acid) ==
    LET predicate_table_columns == conjunct_cols
        pred == IF predicate_table_columns # {}
                THEN SelectSeq(read_table_cols, LAMBDA c : c \in predicate_table_columns)
                ELSE <<>>
        lazy == IF predicate_table_columns # {}
                THEN SelectSeq(read_table_cols,
                         LAMBDA c : /\ c \notin predicate_table_columns
                                    /\ (~is_acid \/ c \notin AcidRowColumns))
                ELSE <<>>
        can_lazy_read == CanLazyRead(enable_lazy_mat, pred, lazy) /\ has_conjuncts
        pred_part == partition_columns \cap predicate_table_columns
        pred_miss == missing_columns \cap predicate_table_columns
    IN [conjunct_cols |-> conjunct_cols,
        all_read_columns |-> read_table_cols,
        has_complex_type |-> FALSE,
        predicate_columns |-> pred,
        lazy_read_columns |-> lazy,
        partition_columns |-> (partition_columns \ predicate_table_columns)
                              \cup (IF can_lazy_read THEN {} ELSE pred_part),
        predicate_partition_columns |-> pred_part,
        missing_columns |-> (missing_columns \ predicate_table_columns)
                            \cup (IF can_lazy_read THEN {} ELSE pred_miss),
        predicate_missing_columns |-> pred_miss,
        can_lazy_read |-> can_lazy_read]

\* The status of OrcReader::set_fill_columns: an error when the session asks
\* for a search argument and none could be built, or when the row reader
\* cannot be created.
OrcSetFillStatus(has_conjuncts, enable_filter_by_min_max, check_sargs, sargs_built, reader_created) ==
    IF has_conjuncts /\ enable_filter_by_min_max /\ check_sargs /\ ~sargs_built THEN ERROR
    ELSE IF ~reader_created THEN ERROR
    ELSE OK

\* The calls of set_fill_columns: the reader, the column names asked of
\* init_reader, the columns the conjuncts refer to, the partition columns of
\* the split and the options.
FlNames == {<<>>, <<"x">>, <<"x", "y">>, <<"y", "x", "m">>, <<"x", "m">>, <<"m">>}

FlInputs ==
    UNION {{[reader |-> rd, names |-> IF acid THEN <<"rowid">> \o n ELSE n,
             partition |-> part, conjunct_cols |-> cc, has_conjuncts |-> hc,
             enable_lazy_mat |-> lm, is_acid |-> acid] :
                cc \in SUBSET (Seq2Set(n) \cup part \cup (IF acid THEN {"rowid"} ELSE {})),
                hc \in BOOLEAN, lm \in BOOLEAN} :
           rd \in {"parquet", "orc"}, acid \in BOOLEAN, n \in FlNames, part \in SUBSET {"p"}}

FlIdle ==
    /\ fl_in = [reader |-> "none"]
    /\ fl_pc = "idle"
    /\ fl_status = OK
    /\ fl_ctx = LazyReadContext0

FlInit ==
    /\ fl_in \in {i \in FlInputs : /\ i.conjunct_cols # {} => i.has_conjuncts
                                   /\ i.is_acid => i.reader = "orc"}
    /\ fl_pc = "inited"
    /\ fl_status = OK
    /\ fl_ctx = LazyReadContext0

FlMissing(names) == {c \in Seq2Set(names) : c \notin FlFileCols}

\* ParquetReader::set_fill_columns after init_reader
FlParquetSetFillColumns ==
    /\ fl_pc = "inited"
    /\ fl_in.reader = "parquet"
    /\ \E complex \in SUBSET {"y"} :
          fl_ctx' = ParquetSetFillColumns(PqReadTableColumns(fl_in.names), complex,
                        fl_in.conjunct_cols, fl_in.partition, FlMissing(fl_in.names),
                        fl_in.enable_lazy_mat)
    /\ fl_status' = OK
    /\ fl_pc' = "filled"
    /\ UNCHANGED <<fl_in, savars, pqvars, pdvars, ocvars, dcvars, dmvars, tailvars>>

\* OrcReader::set_fill_columns after init_reader
FlOrcSetFillColumns ==
    /\ fl_pc = "inited"
    /\ fl_in.reader = "orc"
    /\ fl_ctx' = OrcSetFillColumns(OrcReadTableCols(fl_in.names), fl_in.conjunct_cols,
                     fl_in.has_conjuncts, fl_in.partition, FlMissing(fl_in.names),
                     fl_in.enable_lazy_mat, fl_in.is_acid)
    /\ \E mm \in BOOLEAN, check_sargs \in BOOLEAN, sargs_built \in BOOLEAN, created \in BOOLEAN :
          fl_status' = OrcSetFillStatus(fl_in.has_conjuncts, mm, check_sargs, sargs_built, created)
    /\ fl_pc' = "filled"
    /\ UNCHANGED <<fl_in, savars, pqvars, pdvars, ocvars, dcvars, dmvars, tailvars>>

FlNext == FlParquetSetFillColumns \/ FlOrcSetFillColumns


\* ---- properties of set_fill_columns
FlPredicate == Seq2Set(fl_ctx.predicate_columns)
FlLazy == Seq2Set(fl_ctx.lazy_read_columns)
FlPartition == fl_ctx.partition_columns \cup fl_ctx.predicate_partition_columns
FlMissingSet == fl_ctx.missing_columns \cup fl_ctx.predicate_missing_columns

\* The number of the four sets a column is in.
FlSetsOf(c) ==
    (IF c \in FlPredicate THEN 1 ELSE 0) + (IF c \in FlLazy THEN 1 ELSE 0)
    + (IF c \in FlPartition THEN 1 ELSE 0) + (IF c \in FlMissingSet THEN 1 ELSE 0)

\* The columns asked of the reader: the names of init_reader and the
\* partition columns.
FlRequested == Seq2Set(fl_in.names) \cup fl_in.partition

\* The statement of C9 as written: after set_fill_columns returned OK the
\* predicate and lazy sets are disjoint and every requested column is in
\* exactly one of the predicate, lazy, partition and missing sets, whatever
\* the conjuncts (none included).
C9_EveryColumnInExactlyOneSet ==
    (fl_pc = "filled" /\ fl_status = OK)
        => /\ FlPredicate \cap FlLazy = {}
           /\ \A c \in FlRequested : FlSetsOf(c) = 1

\* C9 (amended): after set_fill_columns returned OK the predicate and lazy
\* sets are disjoint; every requested partition or missing column is in
\* exactly one of the four sets; a requested column read from the file is in
\* exactly one of them when the conjuncts refer to at least one column
\* (except a row column of a transactional table no conjunct refers to), and
\* in none of them, only in all_read_columns, when the conjuncts refer to no
\* column.
C9_Amended ==
    (fl_pc = "filled" /\ fl_status = OK)
        => /\ FlPredicate \cap FlLazy = {}
           /\ \A c \in FlRequested :
                IF c \in FlFileCols
                THEN /\ c \in Seq2Set(fl_ctx.all_read_columns)
                     /\ FlSetsOf(c) =
                          IF \/ fl_in.conjunct_cols = {}
                             \/ (fl_in.is_acid /\ c \in AcidRowColumns
                                 /\ c \notin fl_in.conjunct_cols)
                          THEN 0 ELSE 1
                ELSE FlSetsOf(c) = 1

\* C9 happens: set_fill_columns returned OK for a call with a predicate
\* column, a lazy column, a partition column and a missing column.
C9_Witness ==
    /\ fl_pc = "filled" /\ fl_status = OK
    /\ FlPredicate # {} /\ FlLazy # {}
    /\ fl_ctx.predicate_partition_columns # {}
    /\ fl_ctx.missing_columns # {}
    /\ fl_ctx.can_lazy_read

\* C18: after set_fill_columns of ParquetReader or of OrcReader,
\* can_lazy_read is true if and only if lazy materialization is not disabled
\* and the predicate column set and the lazy column set are both non-empty.
C18_CanLazyReadIffEnabledAndBothSets ==
    fl_pc = "filled" =>
        (fl_ctx.can_lazy_read
            <=> (fl_in.enable_lazy_mat /\ FlPredicate # {} /\ FlLazy # {}))

\* C18 happens: set_fill_columns of OrcReader left a predicate column and a
\* lazy column with lazy materialization disabled, and can_lazy_read false.
C18_Witness ==
    /\ fl_pc = "filled" /\ fl_in.reader = "orc"
    /\ ~fl_in.enable_lazy_mat /\ FlPredicate # {} /\ FlLazy # {}
    /\ ~fl_ctx.can_lazy_read

\* ========================================================================
\* OrcReader: delete filters of a batch
\* ========================================================================
\* _position_delete_ordered_rowids == nullptr, _delete_rows == nullptr
NoRowids == <<-1>>
NoDeleteRows == {<<-1>>}

\* A variant of std::upper_bound that stops at an entry equal to v.
UpperBoundAtEqual(rows, from, v) == LowerBound(rows, from, v)

\* std::upper_bound on rows[from..]: the first index (from 0) whose entry is
\* greater than v
RECURSIVE UpperBound(_, _, _)
UpperBound(rows, from, v) ==
    IF from >= Len(rows) THEN Len(rows)
    ELSE IF rows[from + 1] > v THEN from
    ELSE UpperBound(rows, from + 1, v)

\* A variant that flips the entry instead of clearing it.
FlipFilterAt(filter, i) == [filter EXCEPT ![i + 1] = 1 - @]

\* filter[i] = 0 (i counts from 0)
ClearFilterAt(filter, i) == [filter EXCEPT ![i + 1] = 0]

\* The loop `for (; l < r; l++) filter[*l - start] = 0`
RECURSIVE ClearRowids(_, _, _, _, _)
ClearRowids(filter, rowids, l, r, start) ==
    IF l >= r THEN filter
    ELSE ClearRowids(ClearFilterAt(filter, rowids[l + 1] - start), rowids, l + 1, r, start)

\* _execute_filter_position_delete_rowids on a batch of nums rows whose first
\* row is row start of the file
ExecuteFilterPositionDeleteRowids(filter, start, nums, rowids) ==
    IF rowids = NoRowids THEN filter
    ELSE ClearRowids(filter, rowids, LowerBound(rowids, 0, start),
                     UpperBound(rowids, 0, start + nums - 1), start)

\* _build_delete_row_filter: a new filter of ones with the rows cleared whose
\* (original_transaction, bucket, row_id) is in _delete_rows; keys are the
\* triples of the rows of the block.
BuildDeleteRowFilter(keys, delete_rows) ==
    [i \in DOMAIN keys |-> IF keys[i] \in delete_rows THEN 0 ELSE 1]

Ones(n) == [i \in 1..n |-> 1]

\* ---- the inputs: a batch, its filter after predicate evaluation, and the
\* delete set
\* ascending lists of at most two row ids
PdRowidLists ==
    {NoRowids, <<>>}
    \cup {<<a>> : a \in 0..PdMaxRowId}
    \cup {ab \in (0..PdMaxRowId) \X (0..PdMaxRowId) : ab[1] < ab[2]}

\* filters of n entries: all set, all cleared, every other one cleared
PdFilters(n) ==
    {Ones(n), [i \in 1..n |-> 0], [i \in 1..n |-> i % 2]}

PdAcidKeys == {<<t, b, r>> : t \in 1..2, b \in 0..1, r \in 0..1}

PdPositionInputs ==
    UNION {{[kind |-> "position", start |-> s, nums |-> n, rowids |-> d, filter0 |-> f,
             keys |-> <<>>, delete_rows |-> NoDeleteRows] :
                f \in PdFilters(n), d \in PdRowidLists} :
           s \in 0..PdMaxStart, n \in 1..PdBatchRows}

PdAcidInputs ==
    {[kind |-> "acid", start |-> 0, nums |-> 2, rowids |-> NoRowids, filter0 |-> Ones(2),
      keys |-> <<k1, k2>>, delete_rows |-> dr] :
        k1 \in PdAcidKeys, k2 \in PdAcidKeys,
        dr \in {{}, {<<1, 0, 0>>}, {<<1, 0, 1>>, <<2, 1, 0>>}, PdAcidKeys}}

PdIdle ==
    /\ pd_in = [kind |-> "none"]
    /\ pd_filter = <<>>
    /\ pd_first = <<>>
    /\ pd_count = 0

PdInit ==
    /\ pd_in \in PdPositionInputs \cup PdAcidInputs
    /\ pd_filter = pd_in.filter0
    /\ pd_first = <<>>
    /\ pd_count = 0

\* _execute_filter_position_delete_rowids(filter)
PdExecuteFilterPositionDeleteRowids ==
    /\ pd_in.kind = "position"
    /\ pd_count < 2
    /\ pd_filter' = ExecuteFilterPositionDeleteRowids(pd_filter, pd_in.start, pd_in.nums,
                                                      pd_in.rowids)
    /\ pd_first' = IF pd_count = 0 THEN pd_filter' ELSE pd_first
    /\ pd_count' = pd_count + 1
    /\ UNCHANGED <<pd_in, savars, pqvars, flvars, ocvars, dcvars, dmvars, tailvars>>

\* _build_delete_row_filter(block, rows): _delete_rows_filter_ptr
PdBuildDeleteRowFilter ==
    /\ pd_in.kind = "acid"
    /\ pd_count < 2
    /\ pd_filter' = BuildDeleteRowFilter(pd_in.keys, pd_in.delete_rows)
    /\ pd_first' = IF pd_count = 0 THEN pd_filter' ELSE pd_first
    /\ pd_count' = pd_count + 1
    /\ UNCHANGED <<pd_in, savars, pqvars, flvars, ocvars, dcvars, dmvars, tailvars>>

PdNext == PdExecuteFilterPositionDeleteRowids \/ PdBuildDeleteRowFilter


\* ---- properties of the delete filters
PdDeleted == IF pd_in.rowids = NoRowids THEN {} ELSE Seq2Set(pd_in.rowids)

\* C7: after _execute_filter_position_delete_rowids on a batch of rows
\* [start, start + n) the entry i of the filter is cleared when start + i is
\* in the delete list and is as before otherwise; with the list <<5, 9>> and
\* a batch of 10 rows from row 0 exactly the entries 5 and 9 are cleared.
C7_ClearsExactlyDeletedRows ==
    (pd_in.kind = "position" /\ pd_count >= 1)
        => /\ Len(pd_filter) = pd_in.nums
           /\ \A i \in 0..(pd_in.nums - 1) :
                 pd_filter[i + 1] = IF pd_in.start + i \in PdDeleted THEN 0
                                    ELSE pd_in.filter0[i + 1]
           /\ (pd_in.rowids = <<5, 9>> /\ pd_in.start = 0 /\ pd_in.nums = 10
               /\ pd_in.filter0 = Ones(10))
                 => pd_filter = <<1, 1, 1, 1, 1, 0, 1, 1, 1, 0>>

\* C7 happens: the delete list <<5, 9>> was applied to the filter of ones of
\* a batch of 10 rows from row 0.
C7_Witness ==
    /\ pd_in.kind = "position" /\ pd_count = 1
    /\ pd_in.rowids = <<5, 9>> /\ pd_in.start = 0 /\ pd_in.nums = 10
    /\ pd_in.filter0 = Ones(10)
    /\ pd_filter = <<1, 1, 1, 1, 1, 0, 1, 1, 1, 0>>

\* C8: the filter after the same delete set (position-delete row ids or ACID
\* triples) was applied twice to a batch is the filter after it was applied
\* once.
C8_DeleteTwiceSameAsOnce ==
    pd_count = 2 => pd_filter = pd_first

\* C8 happens: a delete set that clears an entry was applied twice.
C8_Witness ==
    /\ pd_count = 2
    /\ pd_filter # pd_in.filter0
    /\ \E i \in DOMAIN pd_filter : pd_filter[i] = 0 /\ pd_in.filter0[i] = 1

\* ========================================================================
\* OrcReader::get_next_block_impl: lazy and eager materialization
\* ========================================================================
\* A file of rows 0..n-1: predicate columns x and w, lazy column y (its
\* value is the number of the row) and the ACID triple <<1, 0, row>>. The
\* column w is 1 in every row, or in every second row.
OcRow(row, x, w) == [row |-> row, x |-> x, w |-> w]

OcFiles ==
    UNION {{[i \in 1..n |-> OcRow(i - 1, xs[i], IF every THEN 1 ELSE i % 2)] :
                xs \in [1..n -> 0..1], every \in BOOLEAN} : n \in 1..OcMaxRows}

\* The columns of the table that are not in the file: m, and pm, which the
\* conjuncts refer to when there are conjuncts.
OcMissingCols == <<"m", "pm">>

\* The missing columns of a scan with their default expressions: NULL for
\* no expression (nullptr), else the value of the literal.
OcMissingMenus == UNION {[cols -> {NULL, MaxVal}] : cols \in SUBSET Seq2Set(OcMissingCols)}

OcCfgs ==
    {[has_conjuncts |-> hc, delete_rows |-> dr, rowids |-> ids, missing |-> ms] :
        hc \in BOOLEAN,
        dr \in {NoDeleteRows, {<<1, 0, 0>>}, {<<1, 0, 1>>, <<1, 0, 2>>}},
        ids \in {NoRowids, <<0>>, <<1, 3>>, <<2>>},
        ms \in OcMissingMenus}

\* _lazy_read_ctx after set_fill_columns of the reader with lazy
\* materialization enabled or disabled
OcLazyReadCtx(cfg, enable_lazy_mat) ==
    OrcSetFillColumns(<<"x", "w", "y">>,
                      IF cfg.has_conjuncts
                      THEN {"x", "w"} \cup (DOMAIN cfg.missing \cap {"pm"}) ELSE {},
                      cfg.has_conjuncts, {}, DOMAIN cfg.missing, enable_lazy_mat, FALSE)

\* The conjuncts x = 1 and w = 1 on a row of the block
\* (VExprContext::execute_conjuncts); a conjunct on the missing column pm
\* holds for the value pm is filled with.
OcConjunct(r) == r.x = 1 /\ r.w = 1

\* A step of the work on one batch: an operation on a filter vector.
OcStep(op, vec, merged) == [op |-> op, vec |-> vec, merged |-> merged]

OcVecs == {"_filter", "result_filter", "_delete_rows_filter", "filter"}

\* The block and the filter vectors while a batch is worked on. A row of
\* the block holds y once it is decoded (NULL before); the missing columns
\* of the block are kept apart, each with its own length.
OcEnv(rows, start) ==
    [block |-> [i \in DOMAIN rows |->
                    [row |-> rows[i].row, x |-> rows[i].x, w |-> rows[i].w, y |-> NULL]],
     missing |-> [c \in Seq2Set(OcMissingCols) |-> <<>>],
     vecs |-> [v \in OcVecs |-> <<>>],
     start |-> start, nums |-> Len(rows), steps |-> <<>>,
     lazy_rows |-> {}]

\* Block::filter_block_internal: the rows of the block whose entry is 1
OcFilterBlockInternal(block, filter) ==
    LET keep == SelectSeq([i \in DOMAIN block |-> i], LAMBDA i : filter[i] = 1)
    IN [k \in DOMAIN keep |-> block[keep[k]]]

\* Block::filter_block_internal on one column: a column that has as many
\* rows as the filter has ones is left alone, and so is a column the filter
\* does not fit (IColumn::filter throws).
OcFilterColumn(column, filter) ==
    LET count == Cardinality({i \in DOMAIN filter : filter[i] = 1})
        keep == SelectSeq([i \in DOMAIN column |-> i], LAMBDA i : filter[i] = 1)
    IN IF Len(column) = count THEN column
       ELSE IF count = 0 THEN <<>>
       ELSE IF Len(column) # Len(filter) THEN column
       ELSE [k \in DOMAIN keep |-> column[keep[k]]]

\* _fill_missing_columns on one column: rows nulls are appended when there
\* is no default expression; else the column is replaced by rows values of
\* the expression.
FillMissingColumn(column, rows, default_expr) ==
    IF default_expr = NULL THEN column \o [i \in 1..rows |-> NULL]
    ELSE [i \in 1..rows |-> default_expr]

\* A variant of the lazy decode that materializes every row of the batch.
OcLazyDecodesAll(filter, i) == TRUE

\* The decode of a lazy column (is_filter) materializes row i of the batch
\* when *_filter has a 1 for it.
OcLazyDecodes(filter, i) == filter[i] = 1

\* The effect of one step.
OcRunStep(env, st, cfg) ==
    LET v == st.vec
        done == [env EXCEPT !.steps = Append(@, st)]
    IN
    CASE st.op = "acid" ->
            [done EXCEPT !.vecs[v] =
                BuildDeleteRowFilter([i \in DOMAIN env.block |-> <<1, 0, env.block[i].row>>],
                                     cfg.delete_rows)]
      [] st.op = "new" -> [done EXCEPT !.vecs[v] = Ones(Len(env.block))]
      [] st.op = "predicate" ->
            [done EXCEPT !.vecs[v] =
                [i \in DOMAIN env.block |->
                    IF (\A m \in st.merged : env.vecs[m][i] = 1) /\ OcConjunct(env.block[i])
                    THEN 1 ELSE 0]]
      [] st.op = "position" ->
            [done EXCEPT !.vecs[v] =
                ExecuteFilterPositionDeleteRowids(env.vecs[v], env.start, env.nums, cfg.rowids)]
      [] st.op = "decode" ->
            [done EXCEPT !.block =
                [i \in DOMAIN env.block |-> [env.block[i] EXCEPT !.y = env.block[i].row]]]
      [] st.op = "lazy_decode" ->
            [done EXCEPT !.block =
                [i \in DOMAIN env.block |->
                    IF OcLazyDecodes(env.vecs[v], i)
                    THEN [env.block[i] EXCEPT !.y = env.block[i].row]
                    ELSE env.block[i]],
                         !.lazy_rows =
                {env.block[i].row : i \in {j \in DOMAIN env.block : OcLazyDecodes(env.vecs[v], j)}}]
      [] st.op = "fill_missing" ->
            [done EXCEPT !.missing[v] = FillMissingColumn(@, env.nums, cfg.missing[v])]
      [] st.op = "clear_missing" -> [done EXCEPT !.missing[v] = <<>>]
      [] st.op = "compact" ->
            [done EXCEPT !.block = OcFilterBlockInternal(env.block, env.vecs[v]),
                         !.missing = [c \in DOMAIN @ |-> OcFilterColumn(@[c], env.vecs[v])]]
      [] OTHER -> [done EXCEPT !.block = <<>>,
                               !.missing = [c \in DOMAIN @ |-> <<>>]]

RECURSIVE OcRunSteps(_, _, _)
OcRunSteps(env, steps, cfg) ==
    IF steps = <<>> THEN env
    ELSE OcRunSteps(OcRunStep(env, Head(steps), cfg), Tail(steps), cfg)

OcAllFiltered(filter) == \A i \in DOMAIN filter : filter[i] = 0

\* The step of the ACID delete filter: _build_delete_row_filter
OcAcidSteps(cfg) ==
    IF cfg.delete_rows # NoDeleteRows
    THEN <<OcStep("acid", "_delete_rows_filter", {})>> ELSE <<>>

\* The vectors handed to execute_conjuncts as `filters`
OcPreFilters(cfg) ==
    IF cfg.delete_rows # NoDeleteRows THEN {"_delete_rows_filter"} ELSE {}

\* The step of the position deletes: _execute_filter_position_delete_rowids(vec)
OcPositionSteps(cfg, vec) ==
    IF cfg.rowids # NoRowids THEN <<OcStep("position", vec, {})>> ELSE <<>>

\* The steps of _fill_missing_columns(block, rows, columns), or of the
\* loop that clears the columns
OcMissingSteps(op, columns) ==
    LET cols == SelectSeq(OcMissingCols, LAMBDA c : c \in columns)
    IN [k \in DOMAIN cols |-> OcStep(op, cols[k], {})]

\* OrcReader::filter, the callback of the row reader: the predicate columns
\* are decoded, the predicate missing columns are filled, the delete filter
\* is built and the conjuncts fill _filter.
OcFilterSteps(cfg) ==
    OcMissingSteps("fill_missing", OcLazyReadCtx(cfg, TRUE).predicate_missing_columns)
    \o OcAcidSteps(cfg) \o <<OcStep("predicate", "_filter", OcPreFilters(cfg))>>

\* A variant of the callback that leaves the predicate missing columns as
\* they are when the conjuncts leave no row.
OcFilterAllStepsNoClear(cfg) == <<>>

\* OrcReader::filter when the conjuncts leave no row (can_filter_all): the
\* predicate missing columns are cleared.
OcFilterAllSteps(cfg) ==
    OcMissingSteps("clear_missing", OcLazyReadCtx(cfg, TRUE).predicate_missing_columns)

\* A variant of the lazy path that leaves the position deletes out.
OcLazyStepsNoPositionDeletes(cfg) ==
    <<OcStep("lazy_decode", "_filter", {})>>
    \o OcMissingSteps("fill_missing", OcLazyReadCtx(cfg, TRUE).missing_columns)
    \o <<OcStep("compact", "_filter", {})>>

\* The lazy path after nextBatch: lazy columns, missing columns, position
\* deletes, one compaction with *_filter.
OcLazySteps(cfg) ==
    <<OcStep("lazy_decode", "_filter", {})>>
    \o OcMissingSteps("fill_missing", OcLazyReadCtx(cfg, TRUE).missing_columns)
    \o OcPositionSteps(cfg, "_filter")
    \o <<OcStep("compact", "_filter", {})>>

\* A variant of the eager path that compacts with the conjuncts' result and
\* applies the position deletes in a second pass.
OcEagerFilterStepsTwoPasses(cfg) ==
    <<OcStep("compact", "result_filter", {})>>
    \o (IF cfg.rowids # NoRowids
        THEN <<OcStep("new", "filter", {}), OcStep("position", "filter", {}),
               OcStep("compact", "filter", {})>>
        ELSE <<>>)

\* The eager path with conjuncts, after execute_conjuncts left some row
OcEagerFilterSteps(cfg) ==
    OcPositionSteps(cfg, "result_filter") \o <<OcStep("compact", "result_filter", {})>>

\* The eager path without conjuncts
OcEagerNoConjunctSteps(cfg) ==
    IF cfg.delete_rows # NoDeleteRows
    THEN OcPositionSteps(cfg, "_delete_rows_filter")
         \o <<OcStep("compact", "_delete_rows_filter", {})>>
    ELSE IF cfg.rowids # NoRowids
    THEN <<OcStep("new", "filter", {}), OcStep("position", "filter", {}),
           OcStep("compact", "filter", {})>>
    ELSE <<>>

OcSeqFrom(s, pos, n) == SubSeq(s, pos + 1, pos + n)

\* orc::RowReader::nextBatch with the filter callback: the next batch in
\* which the callback leaves a row, or the end of the file (rr = 0).
\* missing: the missing columns of the block when the callback is called.
RECURSIVE OcNextBatchFilteredFrom(_, _, _, _)
OcNextBatchFilteredFrom(file, cfg, pos, missing) ==
    IF pos >= Len(file)
    THEN [rr |-> 0, pos |-> pos, env |-> [OcEnv(<<>>, pos) EXCEPT !.missing = missing]]
    ELSE LET n == Min(OcBatchSize, Len(file) - pos)
             env == OcRunSteps([OcEnv(OcSeqFrom(file, pos, n), pos) EXCEPT !.missing = missing],
                               OcFilterSteps(cfg), cfg)
         IN IF OcAllFiltered(env.vecs["_filter"])
            THEN OcNextBatchFilteredFrom(file, cfg, pos + n,
                     OcRunSteps(env, OcFilterAllSteps(cfg), cfg).missing)
            ELSE [rr |-> n, pos |-> pos + n, env |-> env]

OcNextBatchFiltered(file, cfg, pos) ==
    OcNextBatchFilteredFrom(file, cfg, pos, OcEnv(<<>>, pos).missing)

\* orc::RowReader::nextBatch without a callback
OcNextBatch(file, pos) ==
    LET n == Min(OcBatchSize, Len(file) - pos)
    IN [rr |-> n, pos |-> pos + n, env |-> OcEnv(OcSeqFrom(file, pos, n), pos)]

OcResult(rd, pos, eof, read_rows, env) ==
    [pos |-> pos, ret |-> PqRet(OK, eof, read_rows),
     emitted |-> rd.emitted \o [i \in DOMAIN env.block |-> <<env.block[i].x, env.block[i].y>>],
     steps |-> env.steps,
     rows |-> Len(env.block), missing |-> env.missing,
     lazy_rows |-> rd.lazy_rows \cup env.lazy_rows]

OcBlockResult(rd, pos, env) == OcResult(rd, pos, FALSE, Len(env.block), env)

\* get_next_block_impl, lazy path
OcLazyPathWith(rd, cfg, b) ==
    IF b.rr = 0 THEN OcResult(rd, b.pos, TRUE, 0, b.env)
    ELSE OcBlockResult(rd, b.pos, OcRunSteps(b.env, OcLazySteps(cfg), cfg))

OcLazyPath(rd, file, cfg) == OcLazyPathWith(rd, cfg, OcNextBatchFiltered(file, cfg, rd.pos))

\* get_next_block_impl, eager path after the columns are decoded, the
\* delete filter is built and the conjuncts are executed (env)
OcEagerPathWith(rd, cfg, b, env) ==
    IF b.rr = 0 THEN OcResult(rd, b.pos, TRUE, 0, OcEnv(<<>>, b.pos))
    ELSE IF cfg.has_conjuncts
    THEN IF OcAllFiltered(env.vecs["result_filter"])
         THEN OcResult(rd, b.pos, FALSE, rd.ret.read_rows,
                       OcRunSteps(env, <<OcStep("clear", "result_filter", {})>>, cfg))
         ELSE OcBlockResult(rd, b.pos, OcRunSteps(env, OcEagerFilterSteps(cfg), cfg))
    ELSE OcBlockResult(rd, b.pos, OcRunSteps(env, OcEagerNoConjunctSteps(cfg), cfg))

OcEagerPathOf(rd, cfg, b) ==
    OcEagerPathWith(rd, cfg, b,
        OcRunSteps(b.env,
            <<OcStep("decode", "", {})>>
            \o OcMissingSteps("fill_missing", OcLazyReadCtx(cfg, FALSE).missing_columns)
            \o OcAcidSteps(cfg)
            \o (IF cfg.has_conjuncts
                THEN <<OcStep("predicate", "result_filter", OcPreFilters(cfg))>>
                ELSE <<>>),
            cfg))

OcEagerPath(rd, file, cfg) == OcEagerPathOf(rd, cfg, OcNextBatch(file, rd.pos))

\* _lazy_read_ctx.can_lazy_read of the reader with lazy materialization
\* enabled or disabled
OcCanLazyRead(cfg, enable_lazy_mat) == OcLazyReadCtx(cfg, enable_lazy_mat).can_lazy_read

OcReader0 ==
    [pos |-> 0, ret |-> PqRet0, emitted |-> <<>>, steps |-> <<>>,
     rows |-> 0, missing |-> OcEnv(<<>>, 0).missing, lazy_rows |-> {}]

OcIdle ==
    /\ oc_file = <<>>
    /\ oc_cfg = [has_conjuncts |-> FALSE, delete_rows |-> NoDeleteRows, rowids |-> NoRowids,
                 missing |-> <<>>]
    /\ oc_rd = [m \in BOOLEAN |-> OcReader0]

\* Two readers of the same file and arguments: oc_rd[TRUE] with lazy
\* materialization enabled, oc_rd[FALSE] with it disabled.
OcInit ==
    /\ oc_file \in OcFiles
    /\ oc_cfg \in OcCfgs
    /\ oc_rd = [m \in BOOLEAN |-> OcReader0]

\* OrcReader::get_next_block on the reader with _enable_lazy_mat = m
OcGetNextBlock(m) ==
    /\ ~oc_rd[m].ret.eof
    /\ \E res \in {IF OcCanLazyRead(oc_cfg, m)
                   THEN OcLazyPath(oc_rd[m], oc_file, oc_cfg)
                   ELSE OcEagerPath(oc_rd[m], oc_file, oc_cfg)} :
          oc_rd' = [oc_rd EXCEPT ![m] = res]
    /\ UNCHANGED <<oc_file, oc_cfg, savars, pqvars, flvars, pdvars, dcvars, dmvars, tailvars>>

OcGetNextBlockLazy == OcGetNextBlock(TRUE)

OcGetNextBlockEager == OcGetNextBlock(FALSE)

OcNext == OcGetNextBlockLazy \/ OcGetNextBlockEager

\* ---- properties of the ORC scan
OcStepsOf(m, ops) == {i \in DOMAIN oc_rd[m].steps : oc_rd[m].steps[i].op \in ops}

OcVecOf(m, i) == oc_rd[m].steps[i].vec

\* The delete step i of reader m works on the vector that compaction c
\* applies: directly, or merged into it by the conjuncts' execution.
OcDeleteInCompactedVector(m, i, c) ==
    \/ OcVecOf(m, i) = OcVecOf(m, c)
    \/ \E p \in OcStepsOf(m, {"predicate"}) :
          /\ i < p /\ p < c
          /\ OcVecOf(m, p) = OcVecOf(m, c)
          /\ OcVecOf(m, i) \in oc_rd[m].steps[p].merged

\* C4: once both readers of the same file, conjuncts and deletes have
\* reached eof, the reader with lazy materialization and the reader without
\* it have emitted the same rows (values of x and y) in the same order.
C4_LazyAndEagerEmitSameRows ==
    (oc_rd[TRUE].ret.eof /\ oc_rd[FALSE].ret.eof)
        => oc_rd[TRUE].emitted = oc_rd[FALSE].emitted

C4_Witness ==
    /\ oc_rd[TRUE].ret.eof /\ oc_rd[FALSE].ret.eof
    /\ OcCanLazyRead(oc_cfg, TRUE)
    /\ oc_cfg.delete_rows # NoDeleteRows /\ oc_cfg.rowids # NoRowids
    /\ Len(oc_file) > OcBatchSize
    /\ Len(oc_rd[TRUE].emitted) >= 1
    /\ Len(oc_rd[TRUE].emitted) + 2 <= Cardinality({i \in DOMAIN oc_file : oc_file[i].x = 1})

\* C6: in every call of get_next_block_impl (lazy, eager with conjuncts,
\* eager without conjuncts) the block is compacted at most once, no delete
\* is cleared and no predicate is evaluated after the compaction, and the
\* ACID delete filter and the position deletes are in the vector that the
\* compaction applies, which is the vector of the predicate result.
C6_DeletesFusedBeforeSingleCompaction ==
    \A m \in BOOLEAN :
        /\ Cardinality(OcStepsOf(m, {"compact"})) <= 1
        /\ \A c \in OcStepsOf(m, {"compact"}) :
              /\ \A i \in OcStepsOf(m, {"acid", "position", "predicate", "new"}) : i < c
              /\ \A i \in OcStepsOf(m, {"predicate", "position"}) : OcVecOf(m, i) = OcVecOf(m, c)
              /\ \A i \in OcStepsOf(m, {"acid"}) : OcDeleteInCompactedVector(m, i, c)
        /\ \A p \in OcStepsOf(m, {"predicate"}) :
              \A i \in OcStepsOf(m, {"position"}) : p < i /\ OcVecOf(m, i) = OcVecOf(m, p)

C6_Witness ==
    /\ OcCanLazyRead(oc_cfg, TRUE)
    /\ \A m \in BOOLEAN :
          /\ OcStepsOf(m, {"acid"}) # {}
          /\ OcStepsOf(m, {"predicate"}) # {}
          /\ OcStepsOf(m, {"position"}) # {}
          /\ OcStepsOf(m, {"compact"}) # {}
          /\ oc_rd[m].ret.read_rows = 1


\* C35: after every OK return of get_next_block, *read_rows is the number
\* of rows of the returned block, also for a batch of which the conjuncts
\* leave no row.
C35_ReadRowsEqualsBlockRows ==
    \A m \in BOOLEAN :
        oc_rd[m].ret.status = OK => oc_rd[m].ret.read_rows = oc_rd[m].rows

\* The steps of reader m's last batch that fill missing column c.
OcFillsOf(m, c) ==
    {i \in OcStepsOf(m, {"fill_missing"}) : OcVecOf(m, i) = c}

\* C16: in the block of every call of get_next_block, in lazy and in eager
\* mode, each missing column holds one value per row of the block: the value
\* of its default expression, or null when it has none; and the column was
\* filled exactly once for the batch.
C16_MissingColumnsOneValuePerRow ==
    \A m \in BOOLEAN :
        \A c \in DOMAIN oc_cfg.missing :
            /\ oc_rd[m].missing[c] = [i \in 1..oc_rd[m].rows |-> oc_cfg.missing[c]]
            /\ oc_rd[m].steps # <<>> => Cardinality(OcFillsOf(m, c)) = 1

\* C16 happens: with a missing column the conjuncts refer to and one they do
\* not refer to, one with a default expression and one without, the lazy
\* reader skipped a batch without rows and then emitted a batch with a row
\* filtered out, and the eager reader emitted rows.
C16_Witness ==
    /\ DOMAIN oc_cfg.missing = Seq2Set(OcMissingCols)
    /\ oc_cfg.missing["m"] # oc_cfg.missing["pm"]
    /\ OcCanLazyRead(oc_cfg, TRUE)
    /\ oc_rd[TRUE].pos > OcBatchSize
    /\ oc_rd[TRUE].rows = 1 /\ Len(oc_rd[TRUE].emitted) = 1
    /\ oc_rd[FALSE].rows >= 1

\* The rows of the file that satisfy the conjuncts, in order.
OcPassingRows == SelectSeq(oc_file, LAMBDA r : OcConjunct(r))

DcNoDict == <<NULL>>

DcDicts ==
    {d \in UNION {[1..n -> 0..MaxVal] : n \in 0..DcMaxDict} :
        \A i, j \in DOMAIN d : i # j => d[i] # d[j]}

\* The conjuncts of the slot: the root's node type, its function, the node
\* type of its first child (the slot itself or an expression over the slot)
\* and the constant operand(s).
DcBinary(op, lit) ==
    [node_type |-> "BINARY_PRED", op |-> op, lits |-> {lit}, child0 |-> "SLOT_REF"]

\* cast(col) = lit: the first child is a cast of the slot, with the slot's value
DcCastEq(lit) ==
    [node_type |-> "BINARY_PRED", op |-> "eq", lits |-> {lit}, child0 |-> "CAST_EXPR"]

DcIn(is_not_in, lits) ==
    [node_type |-> "IN_PRED", op |-> IF is_not_in THEN "not_in" ELSE "in", lits |-> lits,
     child0 |-> "SLOT_REF"]

DcIsNull ==
    [node_type |-> "FUNCTION_CALL", op |-> "is_null_pred", lits |-> {}, child0 |-> "SLOT_REF"]

DcConjuncts ==
    {DcBinary(op, lit) : op \in {"eq", "lt", "eq_for_null"}, lit \in {1, NULL}}
    \cup {DcIn(FALSE, {0, 1}), DcIn(TRUE, {0}), DcIsNull, DcCastEq(1)}

DcConjunctLists ==
    {<<c>> : c \in DcConjuncts} \cup {<<DcBinary("lt", 1), c>> : c \in DcConjuncts}

DcRowsOf(d, nullable) ==
    UNION {[1..k -> {c \in -1..(Len(d) - 1) : nullable \/ c # NULL}] : k \in 1..DcMaxRows}

DcColumns ==
    UNION {{[dict |-> dn[1], encoded |-> e, nullable |-> dn[2], rows |-> r] :
                e \in BOOLEAN, r \in DcRowsOf(dn[1], dn[2])}
           : dn \in DcDicts \X BOOLEAN}

\* The string of a row: the dictionary's value of its code, NULL for NULL
DcDecode(dict, code) == IF code = NULL THEN NULL ELSE dict[code + 1]

\* The value of one conjunct on value v (a string, a code or NULL) in
\* three-valued logic: "true", "false" or "null".
DcBool(b) == IF b THEN "true" ELSE "false"

DcTheLit(c) == CHOOSE l \in c.lits : TRUE

DcEval(c, v) ==
    CASE c.op = "eq" -> IF v = NULL \/ DcTheLit(c) = NULL THEN "null" ELSE DcBool(v = DcTheLit(c))
      [] c.op = "lt" -> IF v = NULL \/ DcTheLit(c) = NULL THEN "null" ELSE DcBool(v < DcTheLit(c))
      [] c.op = "eq_for_null" -> DcBool(v = DcTheLit(c))
      [] c.op = "in" ->
            IF v = NULL THEN "null"
            ELSE IF v \in c.lits THEN "true"
            ELSE IF NULL \in c.lits THEN "null" ELSE "false"
      [] c.op = "not_in" ->
            IF v = NULL THEN "null"
            ELSE IF v \in c.lits THEN "false"
            ELSE IF NULL \in c.lits THEN "null" ELSE "true"
      [] c.op = "direct_in" -> DcBool(v # NULL /\ v \in c.lits)
      [] OTHER -> DcBool(v = NULL)

\* What stands for the filter when VExprContext::execute_conjuncts fails
ExecuteConjunctsError == <<NULL>>

\* VExprContext::execute_conjuncts on a column: the filter with 1 at the
\* rows on which every conjunct is true
DcExecuteConjuncts(ctxs, column) ==
    [i \in DOMAIN column |->
        IF \A k \in DOMAIN ctxs : DcEval(ctxs[k], column[i]) = "true" THEN 1 ELSE 0]

\* OrcReader::_can_filter_by_dict for a string slot with conjuncts
CanFilterByDict(ctxs) ==
    \A k \in DOMAIN ctxs :
        /\ ctxs[k].node_type \in {"IN_PRED", "BINARY_PRED"}
        /\ ctxs[k].child0 = "SLOT_REF"

\* OrcReader::fill_dict_filter_column_names for the predicate column
FillDictFilterColumnNames(ctxs, disable_dict_filter) ==
    IF ~disable_dict_filter /\ CanFilterByDict(ctxs)
    THEN [dict_filter_cols |-> {"col"}, dict_filter_conjuncts |-> <<>>,
          non_dict_filter_conjuncts |-> <<>>, is_stripe_filtered |-> FALSE, status |-> OK]
    ELSE [dict_filter_cols |-> {}, dict_filter_conjuncts |-> <<>>,
          non_dict_filter_conjuncts |-> ctxs, is_stripe_filtered |-> FALSE, status |-> OK]

\* The codes at which the filter is 1, ascending
DictCodes(result_filter) ==
    LET idx == SelectSeq([i \in DOMAIN result_filter |-> i], LAMBDA i : result_filter[i] = 1)
    IN [k \in DOMAIN idx |-> idx[k] - 1]

\* OrcReader::_rewrite_dict_conjuncts
RewriteDictConjuncts(dict_codes) ==
    IF Len(dict_codes) = 1
    THEN [node_type |-> "BINARY_PRED", op |-> "eq", lits |-> {dict_codes[1]},
          child0 |-> "SLOT_REF"]
    ELSE [node_type |-> "IN_PRED", op |-> "direct_in", lits |-> Seq2Set(dict_codes),
          child0 |-> "SLOT_REF"]

\* A variant in which the column leaves the dictionary filter and its
\* conjuncts are dropped
DcEraseDroppingConjuncts(st, ctxs) ==
    [st EXCEPT !.dict_filter_cols = {}]

\* The column leaves the dictionary filter: its conjuncts are evaluated on strings
DcErase(st, ctxs) ==
    [st EXCEPT !.dict_filter_cols = {},
               !.non_dict_filter_conjuncts = st.non_dict_filter_conjuncts \o ctxs]

\* A variant of on_string_dicts_loaded that never filters a stripe: the
\* conjuncts of the column are left to the rows.
OnStringDictsLoadedNeverFiltered(st, ctxs, col, result_filter) ==
    IF st.dict_filter_cols = {} THEN st ELSE DcErase(st, ctxs)

\* OrcReader::on_string_dicts_loaded for the predicate column; col is the
\* column of the stripe, st the state left by fill_dict_filter_column_names.
OnStringDictsLoadedWith(st, ctxs, col, result_filter) ==
    IF st.dict_filter_cols = {} THEN st
    ELSE IF ~col.encoded THEN DcErase(st, ctxs)
    ELSE IF Len(col.dict) = 0 THEN DcErase(st, ctxs)
    ELSE IF result_filter = ExecuteConjunctsError THEN [st EXCEPT !.status = "InternalError"]
    ELSE IF \A i \in DOMAIN result_filter : result_filter[i] = 0
    THEN [st EXCEPT !.is_stripe_filtered = TRUE]
    ELSE IF Len(DictCodes(result_filter)) > MAX_DICT_CODE_PREDICATE_TO_REWRITE
    THEN DcErase(st, ctxs)
    ELSE [st EXCEPT !.dict_filter_conjuncts =
                        Append(@, RewriteDictConjuncts(DictCodes(result_filter)))]

\* execute_ok: VExprContext::execute_conjuncts on the dictionary values
\* returns OK
OnStringDictsLoaded(st, ctxs, col, execute_ok) ==
    OnStringDictsLoadedWith(st, ctxs, col,
        IF execute_ok THEN DcExecuteConjuncts(ctxs, col.dict) ELSE ExecuteConjunctsError)

\* The rows of the stripe that the reader's conjuncts leave: none in a
\* filtered stripe; else the rewritten conjuncts on the codes and the
\* others on the strings.
DcFilterRows(st, col) ==
    IF st.is_stripe_filtered THEN [i \in DOMAIN col.rows |-> 0]
    ELSE LET on_codes == DcExecuteConjuncts(st.dict_filter_conjuncts, col.rows)
             on_strings == DcExecuteConjuncts(st.non_dict_filter_conjuncts,
                               [i \in DOMAIN col.rows |-> DcDecode(col.dict, col.rows[i])])
         IN [i \in DOMAIN col.rows |-> IF on_codes[i] = 1 /\ on_strings[i] = 1 THEN 1 ELSE 0]

DcState0 ==
    [dict_filter_cols |-> {}, dict_filter_conjuncts |-> <<>>,
     non_dict_filter_conjuncts |-> <<>>, is_stripe_filtered |-> FALSE, status |-> OK]

DcIdle ==
    /\ dc_col = [dict |-> <<>>, encoded |-> FALSE, nullable |-> FALSE, rows |-> <<>>]
    /\ dc_ctxs = <<>>
    /\ dc_st = DcState0
    /\ dc_pc = "idle"
    /\ dc_filter = <<>>
    /\ dc_disable_dict_filter = FALSE

DcInit ==
    /\ dc_col \in DcColumns
    /\ dc_ctxs \in DcConjunctLists
    /\ dc_st = DcState0
    /\ dc_pc = "new_stripe"
    /\ dc_filter = <<>>
    /\ dc_disable_dict_filter \in BOOLEAN

\* The row reader starts a stripe: fill_dict_filter_column_names
DcFillDictFilterColumnNames ==
    /\ dc_pc = "new_stripe"
    /\ dc_st' = FillDictFilterColumnNames(dc_ctxs, dc_disable_dict_filter)
    /\ dc_pc' = "dicts_loaded"
    /\ UNCHANGED <<dc_col, dc_ctxs, dc_filter, dc_disable_dict_filter, savars, pqvars, flvars, pdvars, ocvars, dmvars, tailvars>>

\* The row reader has loaded the dictionaries: on_string_dicts_loaded
DcOnStringDictsLoaded ==
    /\ dc_pc = "dicts_loaded"
    /\ \E execute_ok \in BOOLEAN :
          dc_st' = OnStringDictsLoaded(dc_st, dc_ctxs, dc_col, execute_ok)
    /\ dc_pc' = IF dc_st'.status = OK THEN "read" ELSE "failed"
    /\ UNCHANGED <<dc_col, dc_ctxs, dc_filter, dc_disable_dict_filter, savars, pqvars, flvars, pdvars, ocvars, dmvars, tailvars>>

\* The rows of the stripe are filtered
DcFilter ==
    /\ dc_pc = "read"
    /\ dc_filter' = DcFilterRows(dc_st, dc_col)
    /\ dc_pc' = "done"
    /\ UNCHANGED <<dc_col, dc_ctxs, dc_st, dc_disable_dict_filter, savars, pqvars, flvars, pdvars, ocvars, dmvars, tailvars>>

DcNext == DcFillDictFilterColumnNames \/ DcOnStringDictsLoaded \/ DcFilter

\* ---- properties of the dictionary filter
\* The column went through the dictionary: its conjuncts were rewritten or
\* the stripe was filtered by them.
DcChosen == dc_st.dict_filter_cols # {}

\* The rows that pass the original conjuncts on the decoded strings
DcOriginalFilter ==
    DcExecuteConjuncts(dc_ctxs, [i \in DOMAIN dc_col.rows |-> DcDecode(dc_col.dict, dc_col.rows[i])])

\* C5: for a column chosen for dictionary filtering, the rows that pass the
\* rewritten predicate on the codes (or none, in a filtered stripe) are the
\* rows that pass the original conjuncts on the decoded strings, rows with
\* a null value included.
C5_DictRewriteKeepsSameRows ==
    (dc_pc = "done" /\ DcChosen) => dc_filter = DcOriginalFilter


\* A single-slot equality or membership (IN, NOT IN) test on the slot
DcIsEqualityOrMembership(c) ==
    /\ c.child0 = "SLOT_REF"
    /\ \/ c.node_type = "BINARY_PRED" /\ c.op = "eq"
       \/ c.node_type = "IN_PRED" /\ c.op \in {"in", "not_in"}

\* C21: a column is selected for dictionary filtering by
\* fill_dict_filter_column_names only if every conjunct on it is an equality
\* or a membership test whose first operand is the slot; a column with
\* another comparison or a null-aware predicate is never selected.
C21_SelectedOnlyForEqualityOrMembership ==
    (dc_pc = "dicts_loaded" /\ dc_st.dict_filter_cols # {})
        => \A k \in DOMAIN dc_ctxs : DcIsEqualityOrMembership(dc_ctxs[k])

\* No value of the stripe dictionary satisfies the conjuncts of the column.
DcNoValueSatisfies ==
    \A i \in DOMAIN dc_col.dict : DcExecuteConjuncts(dc_ctxs, dc_col.dict)[i] = 0

\* The rows of a stripe reported as filtered are not emitted.
DcFilteredStripeEmitsNoRow ==
    (dc_pc = "done" /\ dc_st.is_stripe_filtered)
        => \A i \in DOMAIN dc_filter : dc_filter[i] = 0

\* C20: when on_string_dicts_loaded runs for a dictionary-filter column of a
\* dictionary-encoded stripe and no value of the stripe dictionary satisfies
\* the conjuncts of the column (their evaluation on the dictionary having
\* succeeded), it reports the stripe as filtered; and no
\* row of a stripe reported as filtered is emitted.
C20_NoMatchingDictValueFiltersStripe ==
    /\ [][(/\ dc_st.dict_filter_cols # {} /\ dc_col.encoded /\ DcNoValueSatisfies
            /\ DcOnStringDictsLoaded /\ dc_st'.status = OK)
              => dc_st'.is_stripe_filtered]_vars
    /\ []DcFilteredStripeEmitsNoRow

\* C20 (amended): the same for a stripe dictionary that has at least one
\* value; with an empty dictionary the column leaves the dictionary filter
\* and the stripe is not reported as filtered.
C20_NoMatchingValueOfNonEmptyDictFiltersStripe ==
    /\ [][(/\ dc_st.dict_filter_cols # {} /\ dc_col.encoded /\ DcNoValueSatisfies
            /\ DcOnStringDictsLoaded /\ dc_st'.status = OK)
              => IF Len(dc_col.dict) > 0
                 THEN dc_st'.is_stripe_filtered
                 ELSE ~dc_st'.is_stripe_filtered /\ dc_st'.dict_filter_cols = {}]_vars
    /\ []DcFilteredStripeEmitsNoRow

\* The column cannot go through the dictionary in this stripe: no dictionary
\* (the stripe is not dictionary-encoded), a dictionary without values, or
\* more surviving codes than MAX_DICT_CODE_PREDICATE_TO_REWRITE.
DcMustFallBack ==
    \/ ~dc_col.encoded
    \/ Len(dc_col.dict) = 0
    \/ Len(DictCodes(DcExecuteConjuncts(dc_ctxs, dc_col.dict)))
           > MAX_DICT_CODE_PREDICATE_TO_REWRITE

\* C22: when a dictionary-filter column has no dictionary in the stripe, an
\* empty dictionary or too many surviving codes, on_string_dicts_loaded
\* takes the column out of the dictionary filter and hands its original
\* conjuncts to the evaluation on decoded values; it returns OK and does not
\* report the stripe as filtered; the rows kept are those that pass the
\* original conjuncts on the decoded values.
C22_FallBackToDecodedValues ==
    /\ [][(/\ dc_st.dict_filter_cols # {} /\ DcMustFallBack
            /\ (dc_col.encoded /\ Len(dc_col.dict) > 0 => dc_st'.status = OK)
            /\ DcOnStringDictsLoaded)
              => (/\ dc_st'.status = OK
                  /\ ~dc_st'.is_stripe_filtered
                  /\ dc_st'.dict_filter_cols = {}
                  /\ dc_st'.dict_filter_conjuncts = <<>>
                  /\ dc_st'.non_dict_filter_conjuncts = dc_ctxs)]_vars
    /\ []((dc_pc = "done" /\ DcMustFallBack) => dc_filter = DcOriginalFilter)

\* C22 happens: a column selected for dictionary filtering, in a stripe that
\* is not dictionary-encoded, of which the conjuncts keep one row and drop
\* another.
C22_Witness ==
    /\ dc_pc = "done"
    /\ ~dc_disable_dict_filter /\ CanFilterByDict(dc_ctxs)
    /\ ~dc_col.encoded
    /\ dc_st.status = OK /\ ~dc_st.is_stripe_filtered
    /\ dc_st.non_dict_filter_conjuncts = dc_ctxs
    /\ \E i, j \in DOMAIN dc_filter : dc_filter[i] = 1 /\ dc_filter[j] = 0

\* C22 happens too for a dictionary without values: every row is NULL
C22_WitnessEmptyDict ==
    /\ dc_pc = "done"
    /\ ~dc_disable_dict_filter /\ CanFilterByDict(dc_ctxs)
    /\ dc_col.encoded /\ Len(dc_col.dict) = 0 /\ Len(dc_col.rows) = DcMaxRows
    /\ dc_st.non_dict_filter_conjuncts = dc_ctxs

\* C20 happens: the stripe has rows with values of a dictionary none of
\* whose values satisfies the conjuncts; it was reported as filtered and no
\* row of it is emitted.
C20_Witness ==
    /\ dc_pc = "done" /\ dc_st.is_stripe_filtered
    /\ Len(dc_col.dict) = DcMaxDict /\ DcNoValueSatisfies
    /\ Len(dc_col.rows) = DcMaxRows
    /\ \A i \in DOMAIN dc_col.rows : dc_col.rows[i] # NULL
    /\ \A i \in DOMAIN dc_filter : dc_filter[i] = 0
\* ========================================================================
\* OrcReader: decode of a decimal column (vorc_reader.h 370-470)
\* ========================================================================
\* A decimal of the file is its unscaled integer and the scale of the column;
\* the values are in the range of the destination type, so that the casts
\* to DecimalType keep them.
\* DecimalScaleParams::get_scale_factor: 10^n
RECURSIVE GetScaleFactor(_)
GetScaleFactor(n) == IF n = 0 THEN 1 ELSE 10 * GetScaleFactor(n - 1)

\* The operator / of int128_t: the quotient truncated toward zero
DmDivide(value, factor) ==
    IF value >= 0 THEN value \div factor ELSE -((-value) \div factor)

\* _init_decimal_converter
InitDecimalConverter(dest_scale, orc_decimal_scale) ==
    IF dest_scale > orc_decimal_scale
    THEN [scale_type |-> "SCALE_UP",
          scale_factor |-> GetScaleFactor(dest_scale - orc_decimal_scale)]
    ELSE IF dest_scale < orc_decimal_scale
    THEN [scale_type |-> "SCALE_DOWN",
          scale_factor |-> GetScaleFactor(orc_decimal_scale - dest_scale)]
    ELSE [scale_type |-> "NO_SCALE", scale_factor |-> 1]

\* The loops of _decode_explicit_decimal_column on one value
DecodeDecimalValue(scale_params, value) ==
    IF scale_params.scale_type = "SCALE_UP" THEN value * scale_params.scale_factor
    ELSE IF scale_params.scale_type = "SCALE_DOWN"
    THEN DmDivide(value, scale_params.scale_factor)
    ELSE value

\* _decode_explicit_decimal_column on a batch: the scale parameters of the
\* column are made at its first batch and kept.
DecodeExplicitDecimalColumn(params, dest_scale, orc_decimal_scale, column_data, cvb_data) ==
    LET ps == IF params = <<>>
              THEN <<InitDecimalConverter(dest_scale, orc_decimal_scale)>>
              ELSE params
    IN [params |-> ps,
        column_data |-> column_data
                        \o [i \in DOMAIN cvb_data |-> DecodeDecimalValue(ps[1], cvb_data[i])]]

DmIdle ==
    /\ dm_orc_scale = 0
    /\ dm_dest_scale = 0
    /\ dm_scale_params = <<>>
    /\ dm_values = <<>>
    /\ dm_column = <<>>

DmInit ==
    /\ dm_orc_scale \in 0..DmMaxScale
    /\ dm_dest_scale \in 0..DmMaxScale
    /\ dm_scale_params = <<>>
    /\ dm_values = <<>>
    /\ dm_column = <<>>

\* A batch of one value of the column is decoded.
DmDecodeExplicitDecimalColumn ==
    /\ Len(dm_values) < DmMaxBatches
    /\ \E value \in (-DmMaxUnscaled)..DmMaxUnscaled :
       \E d \in {DecodeExplicitDecimalColumn(dm_scale_params, dm_dest_scale, dm_orc_scale,
                                             dm_column, <<value>>)} :
          /\ dm_values' = Append(dm_values, value)
          /\ dm_scale_params' = d.params
          /\ dm_column' = d.column_data
    /\ UNCHANGED <<dm_orc_scale, dm_dest_scale, savars, pqvars, flvars, pdvars, ocvars, dcvars, tailvars>>

DmNext == DmDecodeExplicitDecimalColumn

\* ---- properties of the decimal decode
\* round(v, S'): the unscaled integer at scale S' nearest to the unscaled
\* integer v at scale S.
DmRound(v, s, s2) ==
    IF s2 >= s THEN v * GetScaleFactor(s2 - s)
    ELSE LET f == GetScaleFactor(s - s2)
             a == IF v >= 0 THEN v ELSE -v
             q == (a + f \div 2) \div f
         IN IF v >= 0 THEN q ELSE -q

\* C15: every value of a decimal column written with scale S and read with
\* scale S' is decoded to round(value, S'): multiplied by 10^(S'-S) when
\* S' > S, rounded (not truncated) to S' fractional digits when S' < S.
C15_DecimalDecodedToRounded ==
    \A i \in DOMAIN dm_column :
        dm_column[i] = DmRound(dm_values[i], dm_orc_scale, dm_dest_scale)

\* ========================================================================
\* OrcReader: conversion of a column batch to a column of the block
\* (vorc_reader.cpp 1600-1839)
\* ========================================================================
\* A batch of the ORC library (orc::ColumnVectorBatch) holds hasNulls and
\* notNull; a LongVectorBatch holds data, a ListVectorBatch holds offsets and
\* the batch of the elements. numElements is the length of notNull. The
\* values of a batch are numbered from 1; the offsets are any the file may
\* hold; the nulls of a batch are its last k values.
CvNotNulls(n) ==
    {[hasNulls |-> FALSE, notNull |-> [i \in 1..n |-> 1]]}
    \cup {[hasNulls |-> TRUE, notNull |-> [i \in 1..n |-> IF i <= n - k THEN 1 ELSE 0]]
              : k \in 0..n}

CvLongBatches(max) ==
    UNION {{[hasNulls |-> h.hasNulls, notNull |-> h.notNull, data |-> [i \in 1..n |-> i]]
               : h \in CvNotNulls(n)}
           : n \in 0..max}

CvOffsets(n) == UNION {[1..m -> 0..CvMaxOffset] : m \in 0..(n + 1)}

CvListBatches ==
    UNION {{[hasNulls |-> h.hasNulls, notNull |-> h.notNull, offsets |-> o, elements |-> e]
               : h \in CvNotNulls(n), o \in CvOffsets(n), e \in CvLongBatches(CvMaxElems)}
           : n \in 0..CvMaxRows}

\* The requested type: bigint or array<bigint>
CvType(kind, nullable, nested_nullable) ==
    [kind |-> kind, nullable |-> nullable, nested_nullable |-> nested_nullable]

CvTypes ==
    {CvType("bigint", b, FALSE) : b \in BOOLEAN}
    \cup {CvType("array", b, c) : b, c \in BOOLEAN}

CvBatchesOf(type) == IF type.kind = "bigint" THEN CvLongBatches(CvMaxRows) ELSE CvListBatches

\* A column of the block: the null map of a nullable column, the data of a
\* bigint column, and the offsets, the data and the null map of the elements
\* of an array column.
CvColumn(null_map, offsets, data, nested_null_map) ==
    [null_map |-> null_map, offsets |-> offsets, data |-> data,
     nested_null_map |-> nested_null_map]

CvColumn0 == CvColumn(<<>>, <<>>, <<>>, <<>>)

CvResult(status, column) == [status |-> status, column |-> column]

\* What a decode of more values than the batch holds may do: it reads past
\* the buffers of the batch.
CRASH == "CRASH"

CvUndefinedOutcomes == {"crash", "error", "garbage"}

\* The count is a size_t: a negative difference of offsets stands for a
\* count near 2^64, more than any batch holds.
CvUndefinedCount(cvb, num_values) == num_values < 0 \/ num_values > Len(cvb.notNull)

\* Values read past the end of a buffer are unknown (NULL stands for them)
CvReadPast(buffer, num_values) ==
    [i \in 1..num_values |-> IF i <= Len(buffer) THEN buffer[i] ELSE NULL]

\* A variant without the test of hasNulls
NotNullableHasNullsUnchecked(nullable, cvb) == FALSE

\* _orc_column_to_doris_column 1825-1829: the resolved column is not
\* nullable and the batch has nulls
NotNullableHasNulls(nullable, cvb) == ~nullable /\ cvb.hasNulls

\* _orc_column_to_doris_column 1809-1824: the null map of a nullable column
NullMapOf(nullable, cvb, num_values) ==
    IF ~nullable THEN <<>>
    ELSE [i \in 1..num_values |-> IF cvb.hasNulls THEN 1 - CvReadPast(cvb.notNull, num_values)[i]
                                  ELSE 0]

\* _decode_flat_column: num_values values of the batch
DecodeFlatColumn(cvb, num_values) == CvReadPast(cvb.data, num_values)

\* _fill_doris_array_offsets; element_size is the difference as computed
FillDorisArrayOffsets(doris_offsets, orc_offsets, num_values) ==
    IF num_values > 0
    THEN IF Len(orc_offsets) < num_values + 1
         THEN [status |-> ERROR, doris_offsets |-> doris_offsets, element_size |-> 0]
         ELSE LET prev_offset == IF doris_offsets = <<>> THEN 0
                                 ELSE doris_offsets[Len(doris_offsets)]
                  base_offset == orc_offsets[1]
              IN [status |-> OK,
                  doris_offsets |->
                      doris_offsets \o [i \in 1..num_values |->
                                           prev_offset + orc_offsets[i + 1] - base_offset],
                  element_size |-> orc_offsets[num_values + 1] - base_offset]
    ELSE [status |-> OK, doris_offsets |-> doris_offsets, element_size |-> 0]

\* _orc_column_to_doris_column of the elements, then the column of the array
CvElementsToDorisColumn(type, cvb, null_map, f, ub) ==
    IF NotNullableHasNulls(type.nested_nullable, cvb.elements)
    THEN CvResult(ERROR, CvColumn0)
    ELSE IF CvUndefinedCount(cvb.elements, f.element_size)
    THEN IF ub = "garbage" /\ f.element_size > 0
         THEN CvResult(OK, CvColumn(null_map, f.doris_offsets,
                                    DecodeFlatColumn(cvb.elements, f.element_size),
                                    NullMapOf(type.nested_nullable, cvb.elements,
                                              f.element_size)))
         ELSE IF ub = "error" THEN CvResult(ERROR, CvColumn0)
         ELSE CvResult(CRASH, CvColumn0)
    ELSE CvResult(OK, CvColumn(null_map, f.doris_offsets,
                               DecodeFlatColumn(cvb.elements, f.element_size),
                               NullMapOf(type.nested_nullable, cvb.elements, f.element_size)))

\* _orc_column_to_doris_column with _fill_doris_data_column, for a column of
\* the block that is empty and a converter between equal types; ub is what a
\* read past a buffer does.
OrcColumnToDorisColumn(type, cvb, num_values, ub) ==
    IF NotNullableHasNulls(type.nullable, cvb) THEN CvResult(ERROR, CvColumn0)
    ELSE IF type.kind = "bigint"
    THEN CvResult(OK, CvColumn(NullMapOf(type.nullable, cvb, num_values), <<>>,
                               DecodeFlatColumn(cvb, num_values), <<>>))
    ELSE LET f == FillDorisArrayOffsets(<<>>, cvb.offsets, num_values) IN
         IF f.status # OK THEN CvResult(ERROR, CvColumn0)
         ELSE CvElementsToDorisColumn(type, cvb, NullMapOf(type.nullable, cvb, num_values),
                                      f, ub)

CvIdle ==
    /\ cv_type = CvType("bigint", FALSE, FALSE)
    /\ cv_file = <<>>
    /\ cv_pos = 0
    /\ cv_pc = "idle"
    /\ cv_ret = PqRet0
    /\ cv_emitted = <<>>

CvInit ==
    /\ cv_type \in CvTypes
    /\ cv_file \in {<<>>} \cup {<<b>> : b \in CvBatchesOf(cv_type)}
    /\ cv_pos = 0
    /\ cv_pc = "ready"
    /\ cv_ret = PqRet0
    /\ cv_emitted = <<>>

\* OrcReader::get_next_block_impl without conjuncts: the next batch of the
\* column is converted into the block, which is returned when every
\* conversion returned OK.
CvGetNextBlock ==
    /\ cv_pc = "ready"
    /\ IF cv_pos >= Len(cv_file)
       THEN /\ cv_ret' = PqRet(OK, TRUE, 0)
            /\ UNCHANGED <<cv_pos, cv_pc, cv_emitted>>
       ELSE \E ub \in CvUndefinedOutcomes :
            \E r \in {OrcColumnToDorisColumn(cv_type, cv_file[cv_pos + 1],
                                             Len(cv_file[cv_pos + 1].notNull), ub)} :
               /\ cv_pos' = cv_pos + 1
               /\ cv_pc' = IF r.status = CRASH THEN "crashed" ELSE "ready"
               /\ cv_ret' = IF r.status = CRASH THEN cv_ret
                            ELSE IF r.status = OK
                            THEN PqRet(OK, FALSE, Len(cv_file[cv_pos + 1].notNull))
                            ELSE PqRet(ERROR, cv_ret.eof, cv_ret.read_rows)
               /\ cv_emitted' = IF r.status = OK THEN Append(cv_emitted, r.column)
                                ELSE cv_emitted
    /\ UNCHANGED <<cv_type, cv_file, notcvvars>>

CvNext == CvGetNextBlock

\* ---- properties of the column conversion
\* The batch that the next call converts
CvBatch == cv_file[cv_pos + 1]

\* The batch holds a null: hasNulls and a row with notNull = 0
CvContainsNull(cvb) == cvb.hasNulls /\ \E i \in DOMAIN cvb.notNull : cvb.notNull[i] = 0

\* C24: when the requested type of the column (or of the elements of an
\* array column) is not nullable and the batch of the file (or the batch of
\* the elements) holds a null, the conversion fails: get_next_block returns
\* an error and the block with that column is not emitted.
C24_NullsInNotNullableColumnFail ==
    [][(/\ cv_pc = "ready" /\ cv_pos < Len(cv_file)
        /\ \/ ~cv_type.nullable /\ CvContainsNull(CvBatch)
           \/ /\ cv_type.kind = "array" /\ ~cv_type.nested_nullable
              /\ CvContainsNull(CvBatch.elements)
        /\ CvGetNextBlock)
          => (cv_ret'.status = ERROR /\ cv_emitted' = cv_emitted /\ cv_pc' = "ready")]_vars

\* C24 happens: the batch of a column that is not nullable held a null in its
\* last row; the call returned an error and no block was emitted.
C24_Witness ==
    /\ cv_pos = 1 /\ ~cv_type.nullable /\ cv_type.kind = "bigint"
    /\ Len(cv_file[1].notNull) = CvMaxRows
    /\ cv_file[1].hasNulls /\ cv_file[1].notNull[CvMaxRows] = 0
    /\ \A i \in 1..(CvMaxRows - 1) : cv_file[1].notNull[i] = 1
    /\ cv_ret.status = ERROR /\ cv_emitted = <<>>

CvNonDecreasing(s) == \A i \in 1..(Len(s) - 1) : s[i] <= s[i + 1]

\* The offsets of an array batch of num_values rows are too few or decrease
CvBadOffsets(orc_offsets, num_values) ==
    \/ Len(orc_offsets) < num_values + 1
    \/ ~CvNonDecreasing(SubSeq(orc_offsets, 1, num_values + 1))

\* C25: _fill_doris_array_offsets rejects with an error an offsets buffer of
\* the file that is too short or that is not non-decreasing; the offsets it
\* appends to the column of an emitted block never decrease, and the count
\* of elements it hands to the decode of the elements is never the
\* difference of a last offset below the first.
C25_ArrayOffsetsValidated ==
    /\ [][(/\ cv_pc = "ready" /\ cv_pos < Len(cv_file) /\ cv_type.kind = "array"
           /\ Len(CvBatch.notNull) > 0
           /\ CvBadOffsets(CvBatch.offsets, Len(CvBatch.notNull))
           /\ CvGetNextBlock)
             => (cv_ret'.status = ERROR /\ cv_emitted' = cv_emitted /\ cv_pc' = "ready")]_vars
    /\ [](\A i \in DOMAIN cv_emitted : CvNonDecreasing(<<0>> \o cv_emitted[i].offsets))
    /\ []((cv_pc = "ready" /\ cv_pos < Len(cv_file) /\ cv_type.kind = "array")
             => LET f == FillDorisArrayOffsets(<<>>, CvBatch.offsets, Len(CvBatch.notNull))
                IN f.status = OK => f.element_size >= 0)

\* ========================================================================
\* RowIdConversion (be/src/olap/rowid_conversion.h)
\* ========================================================================
\* A RowLocation; row_id is a uint32_t and NULL stands for its value -1
\* (UINT32_MAX).
RowLocation(rowset_id, segment_id, row_id) ==
    [rowset_id |-> rowset_id, segment_id |-> segment_id, row_id |-> row_id]

RcRowsets == {1, 2}

\* The source rows asked of get: every row of every segment of the rowsets
\* and the row after the last, and a row of a rowset that was never given
RcSources ==
    {RowLocation(rs, seg, row) :
        rs \in RcRowsets, seg \in 0..RcMaxSegments, row \in 0..RcMaxRows}
    \cup {RowLocation(3, 0, 0)}

\* <UINT32_MAX, UINT32_MAX>: the row does not exist
RcNotExist == <<NULL, NULL>>

\* *dst before a call of get
RcDst0 == RowLocation(0, 0, 0)

RcNoGet == [src \in RcSources |-> [ret |-> 0, dst |-> RcDst0]]

\* The state of a RowIdConversion
RcState(segments_rowid_map, segment_to_id_map, id_to_segment_map, cur_dst_segment_id, cur_dst_segment_rowid, added) ==
    [segments_rowid_map |-> segments_rowid_map, segment_to_id_map |-> segment_to_id_map,
     id_to_segment_map |-> id_to_segment_map, cur_dst_segment_id |-> cur_dst_segment_id,
     cur_dst_segment_rowid |-> cur_dst_segment_rowid, added |-> added]

RcTheState ==
    RcState(rc_segments_rowid_map, rc_segment_to_id_map, rc_id_to_segment_map,
            rc_cur_dst_segment_id, rc_cur_dst_segment_rowid, rc_added)

\* std::map::emplace: the key keeps the value it has
RcEmplace(map, key, value) ==
    IF key \in DOMAIN map THEN map
    ELSE [k \in (DOMAIN map) \cup {key} |-> IF k = key THEN value ELSE map[k]]

\* A variant that numbers the segments of every rowset from 0
InitSegmentIdPerRowset(st, i) == i

\* init_segment_map: the id of the next segment
InitSegmentId(st, i) == Len(st.segments_rowid_map)

\* init_segment_map from segment i (from 0) on; the memory limit is exceeded
\* at segment fail_at
RECURSIVE InitSegmentMap(_, _, _, _, _)
InitSegmentMap(st, src_rowset_id, num_rows, i, fail_at) ==
    IF i >= Len(num_rows) THEN [status |-> OK, st |-> st]
    ELSE IF i = fail_at THEN [status |-> ERROR, st |-> st]
    ELSE InitSegmentMap(
             [st EXCEPT
                !.segment_to_id_map = RcEmplace(@, <<src_rowset_id, i>>, InitSegmentId(st, i)),
                !.id_to_segment_map = Append(@, <<src_rowset_id, i>>),
                !.segments_rowid_map = Append(@, [r \in 1..num_rows[i + 1] |-> RcNotExist])],
             src_rowset_id, num_rows, i + 1, fail_at)

\* add: the loop over rss_row_ids; every item names a segment of the map and
\* a row of it, or has row_id -1
RECURSIVE RcAddItems(_, _, _)
RcAddItems(st, rss_row_ids, dst_segments_num_row) ==
    IF rss_row_ids = <<>> THEN st
    ELSE LET item == Head(rss_row_ids) IN
         IF item.row_id = NULL
         THEN RcAddItems(st, Tail(rss_row_ids), dst_segments_num_row)
         ELSE LET id == st.segment_to_id_map[<<item.rowset_id, item.segment_id>>]
                  next == /\ st.cur_dst_segment_id < Len(dst_segments_num_row)
                          /\ st.cur_dst_segment_rowid
                                >= dst_segments_num_row[st.cur_dst_segment_id + 1]
                  seg == IF next THEN st.cur_dst_segment_id + 1 ELSE st.cur_dst_segment_id
                  row == IF next THEN 0 ELSE st.cur_dst_segment_rowid
              IN RcAddItems(
                     [st EXCEPT
                        !.cur_dst_segment_id = seg,
                        !.cur_dst_segment_rowid = row + 1,
                        !.segments_rowid_map[id + 1][item.row_id + 1] = <<seg, row>>,
                        !.added[RowLocation(item.rowset_id, item.segment_id, item.row_id)]
                            = <<seg, row>>],
                     Tail(rss_row_ids), dst_segments_num_row)

\* A variant of get that takes every row of the map for an added one
RcGetOfEveryRow(st, dst_rowst_id, src, dst) ==
    LET key == <<src.rowset_id, src.segment_id>> IN
    IF key \notin DOMAIN st.segment_to_id_map THEN [ret |-> -1, dst |-> dst]
    ELSE LET rowid_map == st.segments_rowid_map[st.segment_to_id_map[key] + 1] IN
         IF src.row_id = NULL \/ src.row_id >= Len(rowid_map) THEN [ret |-> -1, dst |-> dst]
         ELSE [ret |-> 0,
               dst |-> RowLocation(dst_rowst_id, rowid_map[src.row_id + 1][1],
                                   rowid_map[src.row_id + 1][2])]

\* get: the return value and *dst
RcGetOf(st, dst_rowst_id, src, dst) ==
    LET key == <<src.rowset_id, src.segment_id>> IN
    IF key \notin DOMAIN st.segment_to_id_map THEN [ret |-> -1, dst |-> dst]
    ELSE LET rowid_map == st.segments_rowid_map[st.segment_to_id_map[key] + 1] IN
         IF src.row_id = NULL \/ src.row_id >= Len(rowid_map) THEN [ret |-> -1, dst |-> dst]
         ELSE IF rowid_map[src.row_id + 1] = RcNotExist THEN [ret |-> -1, dst |-> dst]
         ELSE [ret |-> 0,
               dst |-> RowLocation(dst_rowst_id, rowid_map[src.row_id + 1][1],
                                   rowid_map[src.row_id + 1][2])]

\* The items add may be given: a row of a segment of the map, or row_id -1
RcItems ==
    {RowLocation(1, 0, NULL)}
    \cup UNION {{RowLocation(key[1], key[2], row - 1) :
                    row \in DOMAIN rc_segments_rowid_map[rc_segment_to_id_map[key] + 1]}
                : key \in DOMAIN rc_segment_to_id_map}

RcItemLists(max) == UNION {[1..n -> RcItems] : n \in 0..max}

RcDstSegmentsNumRows == {<<0, 2>>, <<1, 0, 1>>, <<1, 1, 1>>}

\* What the caller of add keeps to: every call is given the row counts of
\* the destination segments, a list that a later call may extend, and the
\* rows added so far are no more than the rows of those segments.
\* rows: the items with a row_id other than -1 given to add so far.
RcNoDst == [num_row |-> <<>>, rows |-> 0]

RcIsPrefix(s, t) == Len(s) <= Len(t) /\ SubSeq(t, 1, Len(s)) = s

RECURSIVE RcSumRows(_)
RcSumRows(num_row) == IF num_row = <<>> THEN 0 ELSE Head(num_row) + RcSumRows(Tail(num_row))

RcDstAfter(dst, rss_row_ids, dst_segments_num_row) ==
    [num_row |-> dst_segments_num_row,
     rows |-> dst.rows + Len(SelectSeq(rss_row_ids, LAMBDA item : item.row_id # NULL))]

RcFits(dst, rss_row_ids, dst_segments_num_row) ==
    /\ RcIsPrefix(dst.num_row, dst_segments_num_row)
    /\ RcDstAfter(dst, rss_row_ids, dst_segments_num_row).rows
          <= RcSumRows(dst_segments_num_row)

\* The segments of a rowset: each has no row or RcMaxRows rows
RcNumRows(max) == UNION {[1..n -> {0, RcMaxRows}] : n \in 0..max}

RcNoSegments == [key \in {} |-> 0]

RcNothingAdded == [src \in RcSources |-> RcNotExist]

RcIdle ==
    /\ rc_segments_rowid_map = <<>>
    /\ rc_segment_to_id_map = RcNoSegments
    /\ rc_id_to_segment_map = <<>>
    /\ rc_dst_rowst_id = 0
    /\ rc_cur_dst_segment_id = 0
    /\ rc_cur_dst_segment_rowid = 0
    /\ rc_added = RcNothingAdded
    /\ rc_calls = <<0, 0>>
    /\ rc_pc = "idle"
    /\ rc_get = RcNoGet
    /\ rc_dst = RcNoDst

RcInit ==
    /\ rc_segments_rowid_map = <<>>
    /\ rc_segment_to_id_map = RcNoSegments
    /\ rc_id_to_segment_map = <<>>
    /\ rc_dst_rowst_id = 0
    /\ rc_cur_dst_segment_id = 0
    /\ rc_cur_dst_segment_rowid = 0
    /\ rc_added = RcNothingAdded
    /\ rc_calls = <<0, 0>>
    /\ rc_pc = "built"
    /\ rc_get = RcNoGet
    /\ rc_dst = RcNoDst

RcSetState(st) ==
    /\ rc_segments_rowid_map' = st.segments_rowid_map
    /\ rc_segment_to_id_map' = st.segment_to_id_map
    /\ rc_id_to_segment_map' = st.id_to_segment_map
    /\ rc_cur_dst_segment_id' = st.cur_dst_segment_id
    /\ rc_cur_dst_segment_rowid' = st.cur_dst_segment_rowid
    /\ rc_added' = st.added

\* RowIdConversion::init_segment_map
RcInitSegmentMap ==
    /\ rc_pc = "built"
    /\ \E src_rowset_id \in RcRowsets, num_rows \in RcNumRows(RcMaxSegments - rc_calls[1]) :
       \E fail_at \in (Len(num_rows) - 1)..Len(num_rows) :
          /\ RcSetState(InitSegmentMap(RcTheState, src_rowset_id, num_rows, 0, fail_at).st)
          /\ rc_calls' = <<rc_calls[1] + Len(num_rows), rc_calls[2]>>
    /\ UNCHANGED <<rc_dst_rowst_id, rc_pc, rc_get, rc_dst, notrcvars>>

\* RowIdConversion::set_dst_rowset_id
RcSetDstRowsetId ==
    /\ rc_pc = "built" /\ rc_dst_rowst_id = 0
    /\ \E dst_rowset_id \in {3, 4} : rc_dst_rowst_id' = dst_rowset_id
    /\ UNCHANGED <<rc_segments_rowid_map, rc_segment_to_id_map, rc_id_to_segment_map,
                   rc_cur_dst_segment_id, rc_cur_dst_segment_rowid, rc_added, rc_calls,
                   rc_pc, rc_get, rc_dst, notrcvars>>

\* RowIdConversion::add
RcAdd ==
    /\ rc_pc = "built"
    /\ \E rss_row_ids \in RcItemLists(RcMaxItems - rc_calls[2]),
          dst_segments_num_row \in RcDstSegmentsNumRows :
          /\ RcFits(rc_dst, rss_row_ids, dst_segments_num_row)
          /\ RcSetState(RcAddItems(RcTheState, rss_row_ids, dst_segments_num_row))
          /\ rc_calls' = <<rc_calls[1], rc_calls[2] + Len(rss_row_ids)>>
          /\ rc_dst' = RcDstAfter(rc_dst, rss_row_ids, dst_segments_num_row)
    /\ UNCHANGED <<rc_dst_rowst_id, rc_pc, rc_get, notrcvars>>

\* RowIdConversion::get, called for every source row with *dst = RcDst0
RcGet ==
    /\ rc_pc = "built"
    /\ rc_get' = [src \in RcSources |->
                     RcGetOf(RcTheState, rc_dst_rowst_id, src, RcDst0)]
    /\ rc_pc' = "used"
    /\ UNCHANGED <<rc_segments_rowid_map, rc_segment_to_id_map, rc_id_to_segment_map,
                   rc_dst_rowst_id, rc_cur_dst_segment_id, rc_cur_dst_segment_rowid,
                   rc_added, rc_calls, rc_dst, notrcvars>>

RcNext == RcInitSegmentMap \/ RcSetDstRowsetId \/ RcAdd \/ RcGet

\* ---- properties of RowIdConversion
\* C27: get(src, dst) returns 0 and sets *dst to the destination rowset and
\* the segment and row that the last add of src recorded if src was given to
\* add (with a row_id other than -1); else (unknown rowset or segment, row id
\* beyond the rows of the segment, row never added) it returns non-zero and
\* leaves *dst as it was.
C27_GetReturnsWhatAddRecorded ==
    [][RcGet =>
          \A src \in RcSources :
             IF rc_added[src] # RcNotExist
             THEN /\ rc_get'[src].ret = 0
                  /\ rc_get'[src].dst = RowLocation(rc_dst_rowst_id, rc_added[src][1],
                                                    rc_added[src][2])
             ELSE rc_get'[src].ret # 0 /\ rc_get'[src].dst = RcDst0]_vars

\* C27 happens: after RcMaxSegments segments were given to init_segment_map
\* and RcMaxItems rows to add, get of an added row of the second rowset
\* returned the destination that add recorded for it, in the second
\* destination segment, while another row was added too.
C27_Witness ==
    /\ rc_pc = "used" /\ rc_calls = <<RcMaxSegments, RcMaxItems>>
    /\ \E src \in RcSources :
          /\ rc_get[src].ret = 0 /\ src.rowset_id = 2
          /\ rc_get[src].dst = RowLocation(rc_dst_rowst_id, rc_added[src][1],
                                           rc_added[src][2])
          /\ rc_get[src].dst.segment_id = 1
          /\ \E other \in RcSources : other # src /\ rc_added[other] # RcNotExist

\* C27 happens too for a row that was never added: get returned -1 and left
\* *dst alone.
C27_WitnessNotAdded ==
    /\ rc_pc = "used" /\ rc_calls[2] > 0
    /\ \E src \in RcSources :
          /\ rc_get[src].ret = -1 /\ rc_get[src].dst = RcDst0
          /\ <<src.rowset_id, src.segment_id>> \in DOMAIN rc_segment_to_id_map
          /\ src.row_id
                < Len(rc_segments_rowid_map[rc_segment_to_id_map[<<src.rowset_id,
                                                                  src.segment_id>>] + 1])

\* The source rows that add recorded a destination for.
RcAdded == {src \in RcSources : rc_added[src] # RcNotExist}

\* C39: with every add given the row counts of the destination segments
\* (a later call may extend the list) and no more rows than those segments
\* have, no two added source rows have the same destination, and every
\* destination names a segment of dst_segments_num_row and a row below the
\* row count of that segment.
C39_DestinationsUniqueAndValid ==
    /\ \A s1, s2 \in RcAdded : s1 # s2 => rc_added[s1] # rc_added[s2]
    /\ \A src \in RcAdded :
          /\ rc_added[src][1] < Len(rc_dst.num_row)
          /\ rc_added[src][2] < rc_dst.num_row[rc_added[src][1] + 1]

\* The half of C39 that holds: the destinations of the added rows differ.
RcDestinationsUnique ==
    \A s1, s2 \in RcAdded : s1 # s2 => rc_added[s1] # rc_added[s2]


\* ========================================================================
\* JsonbWriterT (be/src/util/jsonb_writer.h)
\* ========================================================================
\* A byte of the output: a type or version byte by its name, a data byte by
\* its value
JwByte(tag, val) == [tag |-> tag, val |-> val]

JwData(val) == JwByte("data", val)

\* The bytes of a uint32_t (little endian)
JwUint32(v) ==
    <<JwData(v % 256), JwData((v \div 256) % 256),
      JwData((v \div 65536) % 256), JwData((v \div 16777216) % 256)>>

\* os_->seekp(pos); os_->write(cells); os_->seekp(cur_pos)
JwWriteAt(os, pos, cells) ==
    [i \in 1..Len(os) |->
        IF i > pos /\ i <= pos + Len(cells) THEN cells[i - pos] ELSE os[i]]

\* WriteInfo
WriteInfo(state, sz_pos) == [state |-> state, sz_pos |-> sz_pos]

\* The writer after construction
JwWriter0 ==
    [os |-> <<>>, hasHdr |-> FALSE, kvState |-> "WS_Value", str_pos |-> 0,
     stack |-> <<>>, first |-> TRUE]

\* What a write function leaves and returns
JwResult(w, ret) == [w |-> w, ret |-> ret]

JwTop(w) == w.stack[Len(w.stack)]

\* reset
Reset(w) ==
    [w EXCEPT !.os = <<>>, !.hasHdr = FALSE, !.kvState = "WS_Value",
              !.first = TRUE, !.stack = <<>>]

\* verifyValueState
VerifyValueState(w) ==
    \/ JwTop(w).state = "WS_Object" /\ w.kvState = "WS_Key"
    \/ JwTop(w).state = "WS_Array" /\ w.kvState = "WS_Value"

\* verifyKeyState, without the test of kvState_
VerifyKeyStateOfObject(w) == JwTop(w).state = "WS_Object"

\* verifyKeyState
VerifyKeyState(w) == JwTop(w).state = "WS_Object" /\ w.kvState = "WS_Value"

\* writeHeader
WriteHeader(w) ==
    [w EXCEPT !.os = Append(@, JwByte("JSONB_VER", 0)), !.hasHdr = TRUE]

\* writeFirstHeader
WriteFirstHeader(w) ==
    IF w.first /\ w.stack = <<>>
    THEN IF ~w.hasHdr
         THEN JwResult(WriteHeader([w EXCEPT !.first = FALSE]), TRUE)
         ELSE JwResult([w EXCEPT !.first = FALSE], FALSE)
    ELSE JwResult(w, TRUE)

\* The test that opens writeNull, writeBool, writeInt8, ..., writeStartString
\* and writeStartBinary
JwMayWriteValue(w) ==
    \/ w.first /\ w.stack = <<>>
    \/ w.stack # <<>> /\ VerifyValueState(w)

\* writeKey(key, len) of a key of len >= 1 bytes
WriteKey(w, key) ==
    IF w.stack # <<>> /\ VerifyKeyState(w)
    THEN JwResult([w EXCEPT !.os = Append(@, JwData(Len(key))) \o key,
                            !.kvState = "WS_Key"], TRUE)
    ELSE JwResult(w, FALSE)

\* writeNull, writeBool, writeInt8, ...: the type byte and the bytes of the
\* value
WriteScalar(w, type, bytes) ==
    IF JwMayWriteValue(w)
    THEN LET h == WriteFirstHeader(w) IN
         IF ~h.ret THEN JwResult(h.w, FALSE)
         ELSE JwResult([h.w EXCEPT !.os = Append(@, JwByte(type, 0)) \o bytes,
                                   !.kvState = "WS_Value"], TRUE)
    ELSE JwResult(w, FALSE)

WriteNull(w) == WriteScalar(w, "T_Null", <<>>)

WriteBool(w, b) == WriteScalar(w, IF b THEN "T_True" ELSE "T_False", <<>>)

WriteInt8(w, v) == WriteScalar(w, "T_Int8", <<JwData(v % 256)>>)

\* writeStartString (type T_String, state WS_String), writeStartBinary
\* (T_Binary, WS_Binary)
WriteStartText(w, type, state) ==
    IF JwMayWriteValue(w)
    THEN LET h == WriteFirstHeader(w) IN
         IF ~h.ret THEN JwResult(h.w, FALSE)
         ELSE JwResult([h.w EXCEPT !.os = Append(@, JwByte(type, 0)) \o JwUint32(0),
                                   !.str_pos = Len(h.w.os) + 1,
                                   !.kvState = state], TRUE)
    ELSE JwResult(w, FALSE)

WriteStartString(w) == WriteStartText(w, "T_String", "WS_String")

WriteStartBinary(w) == WriteStartText(w, "T_Binary", "WS_Binary")

\* writeEndString (state WS_String), writeEndBinary (WS_Binary)
WriteEndText(w, state) ==
    IF w.kvState = state
    THEN LET size == Len(w.os) - w.str_pos - 4 IN
         JwResult([w EXCEPT !.os = JwWriteAt(@, w.str_pos, JwUint32(size)),
                            !.kvState = "WS_Value"], TRUE)
    ELSE JwResult(w, FALSE)

WriteEndString(w) == WriteEndText(w, "WS_String")

WriteEndBinary(w) == WriteEndText(w, "WS_Binary")

\* writeString(str, len) (state WS_String), writeBinary(bin, len) (WS_Binary)
WriteText(w, state, bytes) ==
    IF w.kvState = state
    THEN JwResult([w EXCEPT !.os = @ \o bytes], TRUE)
    ELSE JwResult(w, FALSE)

WriteString(w, str) == WriteText(w, "WS_String", str)

WriteBinary(w, bin) == WriteText(w, "WS_Binary", bin)

\* writeStartObject (type T_Object, state WS_Object), writeStartArray
\* (T_Array, WS_Array)
WriteStartContainer(w, type, state) ==
    IF w.stack = <<>> \/ VerifyValueState(w)
    THEN IF w.stack = <<>> /\ w.hasHdr THEN JwResult(w, FALSE)
         ELSE LET h == IF w.stack = <<>> THEN WriteHeader(w) ELSE w IN
              IF Len(h.stack) >= MaxNestingLevel THEN JwResult(h, FALSE)
              ELSE JwResult([h EXCEPT !.os = Append(@, JwByte(type, 0)) \o JwUint32(0),
                                      !.stack = Append(@, WriteInfo(state, Len(h.os) + 1)),
                                      !.kvState = "WS_Value"], TRUE)
    ELSE JwResult(w, FALSE)

WriteStartObject(w) == WriteStartContainer(w, "T_Object", "WS_Object")

WriteStartArray(w) == WriteStartContainer(w, "T_Array", "WS_Array")

\* writeEndObject (state WS_Object), writeEndArray (WS_Array)
WriteEndContainer(w, state) ==
    IF w.stack # <<>> /\ JwTop(w).state = state /\ w.kvState = "WS_Value"
    THEN LET size == Len(w.os) - JwTop(w).sz_pos - 4 IN
         JwResult([w EXCEPT !.os = JwWriteAt(@, JwTop(w).sz_pos, JwUint32(size)),
                            !.stack = SubSeq(@, 1, Len(@) - 1)], TRUE)
    ELSE JwResult(w, FALSE)

WriteEndObject(w) == WriteEndContainer(w, "WS_Object")

WriteEndArray(w) == WriteEndContainer(w, "WS_Array")

\* writeEnd
RECURSIVE WriteEnd(_)
WriteEnd(w) ==
    IF w.stack = <<>> THEN JwResult(w, TRUE)
    ELSE LET r == IF JwTop(w).state = "WS_Array" THEN WriteEndArray(w)
                  ELSE IF JwTop(w).state = "WS_Object" THEN WriteEndObject(w)
                  ELSE IF JwTop(w).state = "WS_String" THEN WriteEndString(w)
                  ELSE IF JwTop(w).state = "WS_Binary" THEN WriteEndBinary(w)
                  ELSE JwResult(w, FALSE) IN
         IF ~r.ret THEN JwResult(r.w, FALSE) ELSE WriteEnd(r.w)

\* ---- what the caller has written: the document so far
\* The containers that were started and not ended, whether a key waits for
\* its value, the string or binary value that was started and not ended, and
\* whether the value of the document has been started
JwDoc(open, key, text, top) == [open |-> open, key |-> key, text |-> text, top |-> top]

JwDoc0 == JwDoc(<<>>, FALSE, "none", FALSE)

JwInnermost(doc) == IF doc.open = <<>> THEN "none" ELSE doc.open[Len(doc.open)]

\* A value may be written here: the value of the document, an element of an
\* array, the value of the key that waits
JwValuePlace(doc) ==
    /\ doc.text = "none"
    /\ \/ doc.open = <<>> /\ ~doc.top
       \/ JwInnermost(doc) = "array"
       \/ JwInnermost(doc) = "object" /\ doc.key

\* The write functions by name, and whether the call is allowed in the
\* document so far
JwAllowed(doc, op) ==
    CASE op = "writeKey" ->
            JwInnermost(doc) = "object" /\ ~doc.key /\ doc.text = "none"
      [] op \in {"writeNull", "writeBool", "writeInt8", "writeStartString",
                 "writeStartBinary"} -> JwValuePlace(doc)
      [] op \in {"writeStartObject", "writeStartArray"} ->
            JwValuePlace(doc) /\ Len(doc.open) < MaxNestingLevel
      [] op \in {"writeString", "writeEndString"} -> doc.text = "string"
      [] op \in {"writeBinary", "writeEndBinary"} -> doc.text = "binary"
      [] op = "writeEndObject" ->
            JwInnermost(doc) = "object" /\ ~doc.key /\ doc.text = "none"
      [] op = "writeEndArray" -> JwInnermost(doc) = "array" /\ doc.text = "none"
      [] OTHER -> TRUE

\* The document after a call of op that returned true
JwDocAfter(doc, op) ==
    CASE op = "writeKey" -> [doc EXCEPT !.key = TRUE]
      [] op \in {"writeNull", "writeBool", "writeInt8"} ->
            [doc EXCEPT !.key = FALSE, !.top = TRUE]
      [] op = "writeStartString" -> [doc EXCEPT !.key = FALSE, !.top = TRUE, !.text = "string"]
      [] op = "writeStartBinary" -> [doc EXCEPT !.key = FALSE, !.top = TRUE, !.text = "binary"]
      [] op = "writeStartObject" ->
            [doc EXCEPT !.key = FALSE, !.top = TRUE, !.open = Append(@, "object")]
      [] op = "writeStartArray" ->
            [doc EXCEPT !.key = FALSE, !.top = TRUE, !.open = Append(@, "array")]
      [] op \in {"writeEndString", "writeEndBinary"} -> [doc EXCEPT !.text = "none"]
      [] op \in {"writeEndObject", "writeEndArray"} ->
            [doc EXCEPT !.open = SubSeq(@, 1, Len(@) - 1)]
      [] op = "writeEnd" -> [doc EXCEPT !.open = <<>>]
      [] OTHER -> doc

\* ---- the calls of a writer
JwKeys == {<<JwData(97)>>}

JwTexts == {<<JwData(98)>>}

JwInt8s == {-1}

JwIdle ==
    /\ jw_w = JwWriter0
    /\ jw_doc = JwDoc0
    /\ jw_calls = 0
    /\ jw_op = "idle"
    /\ jw_ret = TRUE

JwInit ==
    /\ jw_w = JwWriter0
    /\ jw_doc = JwDoc0
    /\ jw_calls = 0
    /\ jw_op = "JsonbWriterT"
    /\ jw_ret = TRUE

\* A call of the write function op that left r
JwCall(op, r) ==
    /\ jw_calls < JwMaxCalls
    /\ jw_w' = r.w
    /\ jw_ret' = r.ret
    /\ jw_op' = op
    /\ jw_doc' = IF r.ret THEN JwDocAfter(jw_doc, op) ELSE jw_doc
    /\ jw_calls' = IF r.ret THEN jw_calls + 1 ELSE jw_calls
    /\ UNCHANGED notjwvars

JwReset ==
    /\ jw_op # "reset"
    /\ jw_w' = Reset(jw_w)
    /\ jw_doc' = JwDoc0
    /\ jw_calls' = 0
    /\ jw_op' = "reset"
    /\ jw_ret' = TRUE
    /\ UNCHANGED notjwvars

JwWriteKey == \E key \in JwKeys : JwCall("writeKey", WriteKey(jw_w, key))

JwWriteNull == JwCall("writeNull", WriteNull(jw_w))

JwWriteBool == \E b \in BOOLEAN : JwCall("writeBool", WriteBool(jw_w, b))

JwWriteInt8 == \E v \in JwInt8s : JwCall("writeInt8", WriteInt8(jw_w, v))

JwWriteStartString == JwCall("writeStartString", WriteStartString(jw_w))

JwWriteString ==
    \E str \in JwTexts : JwCall("writeString", WriteString(jw_w, str))

JwWriteEndString == JwCall("writeEndString", WriteEndString(jw_w))

JwWriteStartBinary == JwCall("writeStartBinary", WriteStartBinary(jw_w))

JwWriteBinary ==
    \E bin \in JwTexts : JwCall("writeBinary", WriteBinary(jw_w, bin))

JwWriteEndBinary == JwCall("writeEndBinary", WriteEndBinary(jw_w))

JwWriteStartObject == JwCall("writeStartObject", WriteStartObject(jw_w))

JwWriteEndObject == JwCall("writeEndObject", WriteEndObject(jw_w))

JwWriteStartArray == JwCall("writeStartArray", WriteStartArray(jw_w))

JwWriteEndArray == JwCall("writeEndArray", WriteEndArray(jw_w))

JwWriteEnd == JwCall("writeEnd", WriteEnd(jw_w))

JwNext ==
    \/ JwReset
    \/ JwWriteKey
    \/ JwWriteNull
    \/ JwWriteBool
    \/ JwWriteInt8
    \/ JwWriteStartString
    \/ JwWriteString
    \/ JwWriteEndString
    \/ JwWriteStartBinary
    \/ JwWriteBinary
    \/ JwWriteEndBinary
    \/ JwWriteStartObject
    \/ JwWriteEndObject
    \/ JwWriteStartArray
    \/ JwWriteEndArray
    \/ JwWriteEnd

\* ---- properties of JsonbWriterT
\* C28: a write call that is not allowed in the document so far (a key
\* outside an object or after a key, a value in an object without a key that
\* waits, a second value of the document, string or binary bytes outside a
\* started string or binary value, an end that does not match the innermost
\* open container, a container deeper than MaxNestingLevel) returns false and
\* leaves the output as it was.
C28_DisallowedWriteFailsAndWritesNothing ==
    [][(jw_calls < JwMaxCalls /\ jw_op' # "reset" /\ ~JwAllowed(jw_doc, jw_op'))
          => (~jw_ret' /\ jw_w'.os = jw_w.os)]_vars

\* C28 happens: a key was refused right after a key with the output kept,
\* inside an object that already holds the key
C28_Witness ==
    /\ jw_op = "writeKey" /\ ~jw_ret
    /\ jw_doc.key /\ JwInnermost(jw_doc) = "object"
    /\ jw_w.os # <<>>

\* C28 happens too for a container opened beyond MaxNestingLevel
C28_WitnessNesting ==
    /\ jw_op \in {"writeStartObject", "writeStartArray"} /\ ~jw_ret
    /\ Len(jw_doc.open) = MaxNestingLevel /\ JwValuePlace(jw_doc)

\* ... and for a second value of the document after a closed container
C28_WitnessSecondValue ==
    /\ jw_op = "writeNull" /\ ~jw_ret
    /\ jw_doc.open = <<>> /\ jw_doc.top /\ jw_doc.text = "none"
    /\ \E i \in 1..Len(jw_w.os) : jw_w.os[i].tag \in {"T_Object", "T_Array"}

\* ========================================================================
\* Meta service: partitions and the operation log
\* (cloud/test/meta_service_operation_log_test.cpp; the service itself is
\* not part of the sources at hand)
\* ========================================================================
MsPartitions == 1..MsMaxPartitions

\* The keys of one table of one instance
MsKey(name, partition_id) == <<name, partition_id>>

MsTableVersionKey == MsKey("table_version", 0)

MsPartitionKeyNames ==
    {"recycle_partition", "meta_partition", "partition_index", "partition_inverted_index"}

MsKeys == {MsKey(name, p) : name \in MsPartitionKeyNames, p \in MsPartitions}
          \cup {MsTableVersionKey}

\* A key that is not there (TXN_KEY_NOT_FOUND), and the value of a key with
\* the versionstamp it was written under (0: written without one)
MsNotFound == [found |-> FALSE, versionstamp |-> 0, value |-> "none"]

MsValue(versionstamp, value) == [found |-> TRUE, versionstamp |-> versionstamp, value |-> value]

\* OperationLogPB under the versionstamp of its log key
MsLogEntry(versionstamp, kind, partition_ids) ==
    [versionstamp |-> versionstamp, kind |-> kind, partition_ids |-> partition_ids]

\* The store: the keys, the operation logs in the order of their
\* versionstamps, and the versionstamp of the last commit
MsStore(kv, log, versionstamp) == [kv |-> kv, log |-> log, versionstamp |-> versionstamp]

MsStore0 == MsStore([key \in MsKeys |-> MsNotFound], <<>>, 0)

\* The writes of a transaction
MsPut(key, value) == [op |-> "put", key |-> key, value |-> value, ids |-> {}]

MsVersionedPut(key, value) == [op |-> "versioned_put", key |-> key, value |-> value, ids |-> {}]

MsRemove(key) == [op |-> "remove", key |-> key, value |-> "none", ids |-> {}]

MsLogPut(kind, partition_ids) ==
    [op |-> "log", key |-> MsKey("log", 0), value |-> kind, ids |-> partition_ids]

\* The writes of a set of partitions, one after another
RECURSIVE MsForEach(_, _)
MsForEach(ids, writes) ==
    IF ids = {} THEN <<>>
    ELSE LET p == CHOOSE q \in ids : \A r \in ids : q <= r IN
         writes[p] \o MsForEach(ids \ {p}, writes)

\* One write applied under the versionstamp of the commit
MsApply(store, write, versionstamp) ==
    CASE write.op = "put" ->
            [store EXCEPT !.kv[write.key] = MsValue(0, write.value)]
      [] write.op = "versioned_put" ->
            [store EXCEPT !.kv[write.key] = MsValue(versionstamp, write.value)]
      [] write.op = "remove" -> [store EXCEPT !.kv[write.key] = MsNotFound]
      [] write.op = "log" ->
            [store EXCEPT !.log = Append(@, MsLogEntry(versionstamp, write.value, write.ids))]

RECURSIVE MsApplyAll(_, _, _)
MsApplyAll(store, writes, versionstamp) ==
    IF writes = <<>> THEN store
    ELSE MsApplyAll(MsApply(store, Head(writes), versionstamp), Tail(writes), versionstamp)

\* Transaction::commit with a versionstamp of its own for every write
RECURSIVE MsCommitWriteByWrite(_, _, _)
MsCommitWriteByWrite(store, writes, ok) ==
    IF ~ok \/ writes = <<>> THEN store
    ELSE MsCommitWriteByWrite(
            MsApply([store EXCEPT !.versionstamp = @ + 1], Head(writes), store.versionstamp + 1),
            Tail(writes), ok)

\* Transaction::commit: all the writes under one new versionstamp, or none
MsCommit(store, writes, ok) ==
    IF ~ok \/ writes = <<>> THEN store
    ELSE MsApplyAll([store EXCEPT !.versionstamp = @ + 1], writes, store.versionstamp + 1)

\* prepare_partition: the partitions wait in the recycle keys
PreparePartitionWrites(partition_ids) ==
    MsForEach(partition_ids,
              [p \in MsPartitions |-> <<MsPut(MsKey("recycle_partition", p), "PREPARED")>>])

\* commit_partition
CommitPartitionWrites(partition_ids, version_write) ==
    MsForEach(partition_ids,
              [p \in MsPartitions |->
                 <<MsRemove(MsKey("recycle_partition", p))>>
                 \o (IF version_write
                     THEN <<MsPut(MsKey("partition_index", p), "db_id, table_id"),
                            MsPut(MsKey("partition_inverted_index", p), ""),
                            MsVersionedPut(MsKey("meta_partition", p), "PartitionMetaPB")>>
                     ELSE <<>>)])
    \o (IF version_write
        THEN <<MsVersionedPut(MsTableVersionKey, "table_version"),
               MsLogPut("commit_partition", partition_ids)>>
        ELSE <<>>)

\* The partitions of a drop request that are prepared and not committed:
\* their recycle keys are there
MsUncommitted(store, partition_ids) ==
    {p \in partition_ids : store.kv[MsKey("recycle_partition", p)].found}

\* drop_partition that logs every partition of the request
DropPartitionWritesLoggingAll(store, partition_ids, need_update_table_version, version_write) ==
    MsForEach(MsUncommitted(store, partition_ids),
              [p \in MsPartitions |-> <<MsPut(MsKey("recycle_partition", p), "DROPPED")>>])
    \o (IF version_write /\ partition_ids \ MsUncommitted(store, partition_ids) # {}
        THEN <<MsLogPut("drop_partition", partition_ids)>>
        ELSE <<>>)
    \o (IF version_write /\ need_update_table_version
        THEN <<MsVersionedPut(MsTableVersionKey, "table_version")>>
        ELSE <<>>)

\* drop_partition
DropPartitionWrites(store, partition_ids, need_update_table_version, version_write) ==
    LET uncommitted == MsUncommitted(store, partition_ids)
        committed == partition_ids \ uncommitted IN
    MsForEach(uncommitted, [p \in MsPartitions |-> <<MsPut(MsKey("recycle_partition", p), "DROPPED")>>])
    \o (IF version_write
        THEN IF committed # {} THEN <<MsLogPut("drop_partition", committed)>> ELSE <<>>
        ELSE MsForEach(committed,
                       [p \in MsPartitions |-> <<MsPut(MsKey("recycle_partition", p), "DROPPED")>>]))
    \o (IF version_write /\ need_update_table_version
        THEN <<MsVersionedPut(MsTableVersionKey, "table_version")>>
        ELSE <<>>)

\* ---- the calls of the test, for every set of partitions
MsRequests(states) == {ids \in SUBSET MsPartitions : ids # {} /\ \A p \in ids : ms_parts[p] \in states}

MsIdle ==
    /\ ms_version_write = FALSE
    /\ ms_store = MsStore0
    /\ ms_parts = [p \in MsPartitions |-> "idle"]
    /\ ms_res = "OK"

\* The instance is written with or without MULTI_VERSION_WRITE_ONLY
MsInit ==
    /\ ms_version_write \in BOOLEAN
    /\ ms_store = MsStore0
    /\ ms_parts = [p \in MsPartitions |-> "new"]
    /\ ms_res = "OK"

\* A call that writes and commits: the response and the partitions after it
MsCall(writes, ok, partition_ids, state) ==
    /\ ms_store' = MsCommit(ms_store, writes, ok)
    /\ ms_res' = IF ok THEN "OK" ELSE "KV_TXN_COMMIT_ERR"
    /\ ms_parts' = IF ok THEN [p \in MsPartitions |->
                                  IF p \in partition_ids THEN state[p] ELSE ms_parts[p]]
                   ELSE ms_parts
    /\ UNCHANGED <<ms_version_write, notmsvars>>

MsPreparePartition ==
    \E partition_ids \in MsRequests({"new"}), ok \in BOOLEAN :
       MsCall(PreparePartitionWrites(partition_ids), ok, partition_ids,
              [p \in MsPartitions |-> "prepared"])

MsCommitPartition ==
    \E partition_ids \in MsRequests({"prepared"}), ok \in BOOLEAN :
       MsCall(CommitPartitionWrites(partition_ids, ms_version_write), ok,
              partition_ids, [p \in MsPartitions |-> "committed"])

MsDropPartition ==
    \E partition_ids \in MsRequests({"prepared", "committed"}),
       need_update_table_version \in BOOLEAN, ok \in BOOLEAN :
       MsCall(DropPartitionWrites(ms_store, partition_ids, need_update_table_version,
                                  ms_version_write),
              ok, partition_ids,
              [p \in MsPartitions |->
                  IF ms_parts[p] = "committed" THEN "dropped" ELSE "dropped_uncommitted"])

MsNext == MsPreparePartition \/ MsCommitPartition \/ MsDropPartition

\* ---- properties of the meta service
MsLastLog(store) == store.log[Len(store.log)]

MsChanged(name) == {p \in MsPartitions : ms_parts'[p] = name /\ ms_parts[p] # name}

RECURSIVE SrEnd(_, _)
SrEnd(sizes, i) == IF i = 0 THEN 1 ELSE SrEnd(sizes, i - 1) + sizes[i]

SrFile(sizes) ==
    [row_groups |-> [i \in DOMAIN sizes |->
                        PqRowGroup(1, SrEnd(sizes, i - 1), SrEnd(sizes, i),
                                   PlainChunk, PlainChunk)],
     y_complex |-> FALSE]

SrFiles ==
    UNION {{SrFile(sizes) : sizes \in [1..n -> 1..SrMaxGroupBytes]} : n \in 1..SrMaxGroups}

\* The bytes of the file
SrFileSize(file) == file.row_groups[Len(file.row_groups)].end_offset + 1

\* The scan ranges [start, start + size) that the cuts make of the bytes
\* [0, file_size)
RECURSIVE SrRangesFrom(_, _, _)
SrRangesFrom(start, cuts, file_size) ==
    IF cuts = {} THEN <<[start |-> start, size |-> file_size - start]>>
    ELSE LET c == CHOOSE x \in cuts : \A y \in cuts : x <= y
         IN <<[start |-> start, size |-> c - start]>>
            \o SrRangesFrom(c, cuts \ {c}, file_size)

\* The ways to cut the file into at most SrMaxRanges scan ranges that tile it
SrTilings(file_size) ==
    {SrRangesFrom(0, cuts, file_size) :
        cuts \in {c \in SUBSET (1..(file_size - 1)) : Cardinality(c) < SrMaxRanges}}

\* The reader of a scan range: no predicate, no deletes
SrCfg(range) ==
    PqCfg(PqNoRanges, {}, TRUE, TRUE, range.start, range.size, NoDeletes, FALSE)

SrNotInited == [status |-> "not_inited", ids |-> {}]

SrIdle ==
    /\ sr_file = [row_groups |-> <<>>, y_complex |-> FALSE]
    /\ sr_ranges = <<>>
    /\ sr_readers = <<>>

SrInit ==
    /\ sr_file \in SrFiles
    /\ sr_ranges \in SrTilings(SrFileSize(sr_file))
    /\ sr_readers = [k \in DOMAIN sr_ranges |-> SrNotInited]

\* init_reader of the reader of scan range k: _init_row_groups
SrInitReader ==
    /\ \E k \in DOMAIN sr_ranges :
          /\ sr_readers[k] = SrNotInited
          /\ \E r \in {InitRowGroups(sr_file, SrCfg(sr_ranges[k]), <<"x", "y">>)} :
                sr_readers' =
                    [sr_readers EXCEPT
                        ![k] = [status |-> r.status,
                                ids |-> {r.queue[i].row_group_id : i \in DOMAIN r.queue}]]
    /\ UNCHANGED <<sr_file, sr_ranges, notsrvars>>

SrNext == SrInitReader

\* ---- properties of the scan ranges
\* The readers that selected row group idx
SrReadersOf(idx) == {k \in DOMAIN sr_readers : idx \in sr_readers[k].ids}

\* The byte in the middle of row group idx
SrMid(idx) ==
    LET g == sr_file.row_groups[idx]
    IN g.start_offset + (g.end_offset - g.start_offset) \div 2

\* C33: with scan ranges that tile the bytes of the file, no row group is
\* selected by two readers; a reader selects the row groups whose middle
\* byte lies in its scan range; and once every reader has run
\* _init_row_groups, every row group is selected by exactly one reader.
C33_EveryRowGroupInOneScanRange ==
    \A idx \in DOMAIN sr_file.row_groups :
        /\ Cardinality(SrReadersOf(idx)) <= 1
        /\ \A k \in SrReadersOf(idx) :
              /\ sr_ranges[k].start <= SrMid(idx)
              /\ SrMid(idx) < sr_ranges[k].start + sr_ranges[k].size
        /\ (\A k \in DOMAIN sr_readers : sr_readers[k] # SrNotInited)
              => Cardinality(SrReadersOf(idx)) = 1

\* C33 happens: every reader of SrMaxRanges scan ranges has run; a scan
\* range starts at the middle byte of a row group that begins in the scan
\* range before, one reader selected no row group (END_OF_FILE) and every
\* row group of the file is selected by a reader.
C33_Witness ==
    /\ Len(sr_ranges) = SrMaxRanges
    /\ Len(sr_file.row_groups) = SrMaxGroups
    /\ \A k \in DOMAIN sr_readers : sr_readers[k] # SrNotInited
    /\ \E k \in DOMAIN sr_readers : sr_readers[k].status = END_OF_FILE
    /\ \E idx \in DOMAIN sr_file.row_groups, k \in DOMAIN sr_ranges :
          /\ sr_ranges[k].start = SrMid(idx)
          /\ sr_file.row_groups[idx].start_offset < sr_ranges[k].start
          /\ SrReadersOf(idx) = {k}
    /\ \A idx \in DOMAIN sr_file.row_groups : SrReadersOf(idx) # {}

\* ========================================================================
\* COUNT push-down: get_next_block of OrcReader and of ParquetReader
\* (vorc_reader.cpp 1867-1887, vparquet_reader.cpp 508-539)
\* ========================================================================
\* A variant of the COUNT branch that reports eof with every batch.
OrcCountBatchEofAtOnce(remaining_rows, ret0) ==
    LET rows == Min(remaining_rows, OcBatchSize)
    IN [remaining_rows |-> remaining_rows - rows, ret |-> PqRet(OK, TRUE, rows)]

\* get_next_block_impl, the COUNT branch: _remaining_rows and the results;
\* *eof is written only when no row remains.
OrcCountBatch(remaining_rows, ret0) ==
    LET rows == Min(remaining_rows, OcBatchSize)
    IN [remaining_rows |-> remaining_rows - rows,
        ret |-> PqRet(OK, IF remaining_rows - rows = 0 THEN TRUE ELSE ret0.eof, rows)]

\* get_next_block_impl of a reader with COUNT push-down
OrcCountGetNextBlock(remaining_rows, ret0, should_stop) ==
    IF should_stop THEN [remaining_rows |-> remaining_rows, ret |-> PqRet(OK, TRUE, 0)]
    ELSE OrcCountBatch(remaining_rows, ret0)

CtIdle ==
    /\ ct_rows = 0
    /\ ct_remaining_rows = 0
    /\ ct_pc = "idle"
    /\ ct_should_stop = FALSE
    /\ ct_ret = PqRet0
    /\ ct_sum = 0

\* An OrcReader of stripes of ct_rows rows in all, before its row reader is
\* created
CtInit ==
    /\ ct_rows \in 0..OcMaxRows
    /\ ct_remaining_rows = 0
    /\ ct_pc = "unopened"
    /\ ct_should_stop = FALSE
    /\ ct_ret = PqRet0
    /\ ct_sum = 0

\* set_fill_columns: the row reader is created and _remaining_rows is
\* _row_reader->getNumberOfRows()
CtSetFillColumns ==
    /\ ct_pc = "unopened"
    /\ ct_remaining_rows' = ct_rows
    /\ ct_pc' = "ready"
    /\ UNCHANGED <<ct_rows, ct_should_stop, ct_ret, ct_sum, notctvars>>

\* OrcReader::get_next_block with COUNT push-down; the caller passes the
\* eof of the call before
CtGetNextBlock ==
    /\ ct_pc = "ready"
    /\ \E g \in {OrcCountGetNextBlock(ct_remaining_rows, ct_ret, ct_should_stop)} :
          /\ ct_remaining_rows' = g.remaining_rows
          /\ ct_ret' = g.ret
          /\ ct_sum' = ct_sum + g.ret.read_rows
    /\ UNCHANGED <<ct_rows, ct_pc, ct_should_stop, notctvars>>

\* The query is cancelled: _io_ctx->should_stop is set.
CtRequestStop ==
    /\ ct_pc = "ready"
    /\ ~ct_should_stop
    /\ ct_should_stop' = TRUE
    /\ UNCHANGED <<ct_rows, ct_remaining_rows, ct_pc, ct_ret, ct_sum, notctvars>>

CtNext == CtSetFillColumns \/ CtGetNextBlock \/ CtRequestStop

\* A ParquetReader with COUNT push-down: no predicate, no deletes
PqCountCfgs ==
    {PqCfg(PqNoRanges, {}, TRUE, TRUE, 0, rz, NoDeletes, TRUE) :
        rz \in {PqGroupBytes, PqGroupBytes * PqMaxGroups}}

PqCountInit ==
    /\ pq_file \in PqScanFiles /\ pq_cfg \in PqCountCfgs
    /\ pq_pc = "unopened"
    /\ pq_read_table_columns = <<>>
    /\ pq_missing_cols = <<>>
    /\ pq_read_row_groups = <<>>
    /\ pq_current_group_reader = NoReader
    /\ pq_row_group_eof = FALSE
    /\ pq_statistics = PqStatistics0
    /\ pq_delete_rows_index = 0
    /\ pq_should_stop = FALSE
    /\ pq_ret = PqRet0
    /\ pq_emitted = <<>>
    /\ pq_opened = <<>>
    /\ pq_failed = FALSE
    /\ pq_lazy_read_ctx = LazyReadContext0

\* One reader with COUNT push-down, a ParquetReader or an OrcReader
CountNext == PqNext \/ CtNext

\* ---- properties of COUNT push-down
\* The rows of the row groups that _init_row_groups selected
PqSelectedRows ==
    LET q == InitRowGroups(pq_file, pq_cfg, pq_read_table_columns).queue
    IN SumNumRows([i \in DOMAIN q |-> pq_file.row_groups[q[i].row_group_id]], Len(q))

\* The sums of the read_rows returned so far are the rows counted so far;
\* no batch is larger than the batch size, and the sum never exceeds the
\* rows selected.
CountWithinSelected ==
    /\ ct_ret.read_rows <= OcBatchSize /\ ct_sum <= ct_rows
    /\ pq_pc = "ready" =>
          pq_ret.read_rows <= PqBatchSize /\ Len(pq_emitted) <= PqSelectedRows

\* eof was reported by a call that returned OK, and no stop was requested
CountEofReached ==
    /\ (ct_ret.eof /\ ~ct_should_stop) => ct_sum = ct_rows
    /\ (pq_pc = "ready" /\ pq_ret.status = OK /\ pq_ret.eof /\ ~pq_should_stop)
          => Len(pq_emitted) = PqSelectedRows

\* C38: with COUNT push-down every read_rows returned by get_next_block is
\* at most the batch size; eof is not reported before the read_rows sum to
\* the rows of the stripes (OrcReader) or of the row groups
\* (ParquetReader) selected for the scan, unless a stop was requested; the
\* sum never exceeds that number; and a reader that is called again and
\* again reports eof.
C38_CountPushDownSumsToSelectedRows ==
    /\ [](CountWithinSelected /\ CountEofReached)
    /\ (ct_pc = "ready") ~> ct_ret.eof
    /\ (pq_pc = "ready") ~> (pq_ret.status = OK /\ pq_ret.eof)

\* C38 happens for the ParquetReader: eof was reported without a stop
\* after the rows of PqMaxGroups row groups were counted, a row group in
\* more than one batch.
C38_Witness ==
    /\ pq_pc = "ready" /\ pq_ret.status = OK /\ pq_ret.eof /\ ~pq_should_stop
    /\ pq_cfg.push_down_agg_count
    /\ Len(pq_opened) = PqMaxGroups
    /\ Len(pq_emitted) = PqSelectedRows
    /\ Len(pq_emitted) > PqMaxGroups * PqBatchSize - PqBatchSize

\* C38 happens for the OrcReader: eof was reported without a stop after
\* OcMaxRows rows were counted in more than one batch.
C38_WitnessOrc ==
    /\ ct_pc = "ready" /\ ct_ret.eof /\ ~ct_should_stop
    /\ ct_rows = OcMaxRows /\ ct_sum = OcMaxRows /\ OcMaxRows > OcBatchSize

\* ========================================================================
\* OrcReader: the dictionary filter of two predicate columns over the
\* stripes of a file (vorc_reader.cpp 2262-2552, vorc_reader.h 273-292)
\* ========================================================================
DsSlots == {1, 2}

\* The conjunct lists of a slot in _slot_id_to_filter_conjuncts; <<>> is a
\* slot without an entry.
DsConjunctLists ==
    {<<>>, <<DcBinary("eq", 1)>>, <<DcBinary("lt", 1)>>,
     <<DcBinary("eq", 1), DcIn(TRUE, {0})>>, <<DcIsNull>>}

\* The string columns of a stripe: the distinct values of the column, and
\* whether the stripe holds them as a dictionary
DsDicts == {<<>>, <<0>>, <<1>>, <<0, 1>>, <<1, 0>>}

DsStripeColumns == [dict : DsDicts, encoded : BOOLEAN]

DsStripes == [DsSlots -> DsStripeColumns]

DsNoStripe == [s \in DsSlots |-> [dict |-> <<>>, encoded |-> FALSE]]

\* The rows a stripe may hold: for every column a code or NULL
DsRowsOf(stripe) ==
    {row \in [DsSlots -> -1..1] : \A s \in DsSlots : row[s] < Len(stripe[s].dict)}

DsState0 ==
    [dict_filter_cols |-> <<>>, dict_filter_conjuncts |-> <<>>,
     non_dict_filter_conjuncts |-> <<>>, is_stripe_filtered |-> FALSE, status |-> OK]

\* The conjuncts of slot, each with its slot
DsCtxsOf(ctxs, slot) ==
    [k \in DOMAIN ctxs[slot] |-> [slot |-> slot, conj |-> ctxs[slot][k]]]

RECURSIVE DsFillFrom(_, _, _, _)
\* The loop of fill_dict_filter_column_names from predicate column i
DsFillFrom(st, ctxs, disable_dict_filter, i) ==
    IF i \notin DsSlots THEN st
    ELSE IF ~disable_dict_filter /\ ctxs[i] # <<>> /\ CanFilterByDict(ctxs[i])
    THEN DsFillFrom([st EXCEPT !.dict_filter_cols = Append(@, i)],
                    ctxs, disable_dict_filter, i + 1)
    ELSE DsFillFrom([st EXCEPT !.non_dict_filter_conjuncts = @ \o DsCtxsOf(ctxs, i)],
                    ctxs, disable_dict_filter, i + 1)

\* A variant of fill_dict_filter_column_names that keeps the lists of the
\* stripe before
DsFillKeepingLists(st, null_map, ctxs, disable_dict_filter) ==
    IF null_map THEN st
    ELSE DsFillFrom([st EXCEPT !.is_stripe_filtered = FALSE], ctxs, disable_dict_filter, 1)

\* OrcReader::fill_dict_filter_column_names; null_map: there is no
\* _slot_id_to_filter_conjuncts
DsFill(st, null_map, ctxs, disable_dict_filter) ==
    IF null_map THEN st
    ELSE DsFillFrom(DsState0, ctxs, disable_dict_filter, 1)

DsRemoveAt(seq, i) == SubSeq(seq, 1, i - 1) \o SubSeq(seq, i + 1, Len(seq))

\* A variant in which a column leaves the dictionary filter and its
\* conjuncts are dropped
DsEraseDroppingConjuncts(st, ctxs, i) ==
    [st EXCEPT !.dict_filter_cols = DsRemoveAt(@, i)]

\* it = _dict_filter_cols.erase(it) and the conjuncts of the slot go to
\* _non_dict_filter_conjuncts
DsErase(st, ctxs, i) ==
    [st EXCEPT !.dict_filter_cols = DsRemoveAt(@, i),
               !.non_dict_filter_conjuncts = @ \o DsCtxsOf(ctxs, st.dict_filter_cols[i])]

RECURSIVE DsLoadFrom(_, _, _, _, _, _)
\* The loop of on_string_dicts_loaded from the i-th dictionary filter
\* column; n is the number of the stripe, fails the slots at which
\* execute_conjuncts or the rewrite returns an error.
DsLoadFrom(st, ctxs, stripe, n, fails, i) ==
    IF i > Len(st.dict_filter_cols) THEN st
    ELSE LET slot == st.dict_filter_cols[i]
             col == stripe[slot]
             result_filter == DcExecuteConjuncts(ctxs[slot], col.dict)
         IN IF ~col.encoded \/ Len(col.dict) = 0
            THEN DsLoadFrom(DsErase(st, ctxs, i), ctxs, stripe, n, fails, i)
            ELSE IF slot \in fails THEN [st EXCEPT !.status = "InternalError"]
            ELSE IF \A k \in DOMAIN result_filter : result_filter[k] = 0
            THEN [st EXCEPT !.is_stripe_filtered = TRUE]
            ELSE IF Len(DictCodes(result_filter)) > MAX_DICT_CODE_PREDICATE_TO_REWRITE
            THEN DsLoadFrom(DsErase(st, ctxs, i), ctxs, stripe, n, fails, i)
            ELSE DsLoadFrom(
                    [st EXCEPT !.dict_filter_conjuncts =
                        Append(@, [slot |-> slot, stripe |-> n,
                                   conj |-> RewriteDictConjuncts(DictCodes(result_filter))])],
                    ctxs, stripe, n, fails, i + 1)

\* OrcReader::on_string_dicts_loaded
DsOnStringDictsLoadedOf(st, ctxs, stripe, n, fails) ==
    DsLoadFrom([st EXCEPT !.is_stripe_filtered = FALSE], ctxs, stripe, n, fails, 1)

\* filter on one row of the stripe: the rewritten conjuncts on the codes,
\* the others on the strings
DsFilterRow(st, stripe, row) ==
    IF /\ \A k \in DOMAIN st.dict_filter_conjuncts :
             DcEval(st.dict_filter_conjuncts[k].conj, row[st.dict_filter_conjuncts[k].slot]) = "true"
       /\ \A k \in DOMAIN st.non_dict_filter_conjuncts :
             DcEval(st.non_dict_filter_conjuncts[k].conj,
                    DcDecode(stripe[st.non_dict_filter_conjuncts[k].slot].dict,
                             row[st.non_dict_filter_conjuncts[k].slot])) = "true"
    THEN 1 ELSE 0

DsIdle ==
    /\ ds_ctxs = [s \in DsSlots |-> <<>>]
    /\ ds_null_map = TRUE
    /\ ds_disable_dict_filter = FALSE
    /\ ds_st = DsState0
    /\ ds_stripe = DsNoStripe
    /\ ds_stripes = 0
    /\ ds_pc = "idle"
    /\ ds_filter = <<>>

DsInit ==
    /\ ds_null_map \in BOOLEAN
    /\ ds_ctxs \in {c \in [DsSlots -> DsConjunctLists] :
                       ds_null_map => \A s \in DsSlots : c[s] = <<>>}
    /\ ds_disable_dict_filter \in BOOLEAN
    /\ ds_st = DsState0
    /\ ds_stripe = DsNoStripe
    /\ ds_stripes = 0
    /\ ds_pc = "between"
    /\ ds_filter = <<>>

\* The row reader starts the next stripe: fillDictFilterColumnNames
DsFillDictFilterColumnNames ==
    /\ ds_pc = "between"
    /\ ds_stripes < DsMaxStripes
    /\ ds_stripes' = ds_stripes + 1
    /\ ds_stripe' \in DsStripes
    /\ ds_st' = DsFill(ds_st, ds_null_map, ds_ctxs, ds_disable_dict_filter)
    /\ ds_pc' = "dicts_loaded"
    /\ ds_filter' = <<>>
    /\ UNCHANGED <<ds_ctxs, ds_null_map, ds_disable_dict_filter, notdsvars>>

\* The row reader has loaded the dictionaries: onStringDictsLoaded
DsOnStringDictsLoaded ==
    /\ ds_pc = "dicts_loaded"
    /\ \E fails \in SUBSET DsSlots :
          ds_st' = DsOnStringDictsLoadedOf(ds_st, ds_ctxs, ds_stripe, ds_stripes, fails)
    /\ ds_pc' = IF ds_st'.status # OK THEN "failed"
                ELSE IF ds_st'.is_stripe_filtered THEN "between" ELSE "read"
    /\ UNCHANGED <<ds_ctxs, ds_null_map, ds_disable_dict_filter, ds_stripe, ds_stripes,
                   ds_filter, notdsvars>>

\* The rows of the stripe are filtered by the filter callback
DsFilter ==
    /\ ds_pc = "read"
    /\ ds_filter' = [row \in DsRowsOf(ds_stripe) |-> DsFilterRow(ds_st, ds_stripe, row)]
    /\ ds_pc' = "between"
    /\ UNCHANGED <<ds_ctxs, ds_null_map, ds_disable_dict_filter, ds_st, ds_stripe, ds_stripes,
                   notdsvars>>

DsNext == DsFillDictFilterColumnNames \/ DsOnStringDictsLoaded \/ DsFilter

\* ---- properties of the dictionary filter over the stripes
\* The rows of the stripe are about to be filtered or were filtered by the
\* lists of ds_st.
DsStripeRead == ds_pc = "read" \/ (ds_pc = "between" /\ ds_filter # <<>>)

\* The number of entries of list that are conjunct c of slot s
DsCount(list, s, c) ==
    Cardinality({k \in DOMAIN list : list[k].slot = s /\ list[k].conj = c})

\* The verdict of the original conjuncts of every slot on the strings of row
DsOriginalRow(row) ==
    IF \A s \in DsSlots : \A k \in DOMAIN ds_ctxs[s] :
          DcEval(ds_ctxs[s][k], DcDecode(ds_stripe[s].dict, row[s])) = "true"
    THEN 1 ELSE 0

\* C31: the dictionary filter lists belong to the stripe being read: when
\* fill_dict_filter_column_names has run for a stripe, no rewritten
\* conjunct is left and the other two lists are those built for this
\* stripe; every rewritten conjunct that filters rows of a stripe was
\* derived from the dictionary of that stripe, and the rows that pass are
\* those that pass the original conjuncts.
C31_DictFilterStateIsPerStripe ==
    /\ (ds_pc = "dicts_loaded" /\ ~ds_null_map) =>
          /\ ds_st.dict_filter_conjuncts = <<>>
          /\ \A s \in DsSlots : \A k \in DOMAIN ds_ctxs[s] :
                DsCount(ds_st.non_dict_filter_conjuncts, s, ds_ctxs[s][k]) <= 1
          /\ \A i, j \in DOMAIN ds_st.dict_filter_cols :
                i # j => ds_st.dict_filter_cols[i] # ds_st.dict_filter_cols[j]
    /\ DsStripeRead =>
          \A k \in DOMAIN ds_st.dict_filter_conjuncts :
              ds_st.dict_filter_conjuncts[k].stripe = ds_stripes
    /\ (ds_pc = "between" /\ ds_filter # <<>>) =>
          \A row \in DOMAIN ds_filter : ds_filter[row] = DsOriginalRow(row)

\* C31 happens: the rows of the last stripe, which follows another one,
\* were filtered by a conjunct of slot 1 rewritten to code 1 of the
\* stripe's dictionary, and some row passed.
C31_Witness ==
    /\ ds_pc = "between" /\ ds_filter # <<>> /\ ds_stripes = DsMaxStripes
    /\ \E k \in DOMAIN ds_st.dict_filter_conjuncts :
          /\ ds_st.dict_filter_conjuncts[k].slot = 1
          /\ ds_st.dict_filter_conjuncts[k].conj.lits = {1}
    /\ ds_stripe[1].dict = <<0, 1>>
    /\ \E row \in DOMAIN ds_filter : ds_filter[row] = 1

\* C37: after on_string_dicts_loaded returned OK without filtering the
\* stripe, for every slot with single-slot conjuncts either the slot is a
\* dictionary filter column with one rewritten conjunct, which passes
\* exactly the codes of the values that pass all its conjuncts, and none of
\* its conjuncts is in _non_dict_filter_conjuncts; or the slot is no
\* dictionary filter column, has no rewritten conjunct and each of its
\* conjuncts is in _non_dict_filter_conjuncts once.
C37_EveryConjunctEnforcedOnce ==
    DsStripeRead =>
        \A s \in DsSlots : ds_ctxs[s] # <<>> =>
            LET rewritten == {k \in DOMAIN ds_st.dict_filter_conjuncts :
                                  ds_st.dict_filter_conjuncts[k].slot = s}
                is_dict_col == \E i \in DOMAIN ds_st.dict_filter_cols :
                                  ds_st.dict_filter_cols[i] = s
            IN \/ /\ is_dict_col
                  /\ Cardinality(rewritten) = 1
                  /\ \A k \in rewritten : \A code \in 0..(Len(ds_stripe[s].dict) - 1) :
                        DcEval(ds_st.dict_filter_conjuncts[k].conj, code) = "true"
                            <=> \A j \in DOMAIN ds_ctxs[s] :
                                    DcEval(ds_ctxs[s][j], ds_stripe[s].dict[code + 1]) = "true"
                  /\ \A j \in DOMAIN ds_ctxs[s] :
                        DsCount(ds_st.non_dict_filter_conjuncts, s, ds_ctxs[s][j]) = 0
               \/ /\ ~is_dict_col
                  /\ rewritten = {}
                  /\ \A j \in DOMAIN ds_ctxs[s] :
                        DsCount(ds_st.non_dict_filter_conjuncts, s, ds_ctxs[s][j]) = 1

\* C37 happens: slot 1 is rewritten and slot 2, a dictionary filter column
\* at the start of the stripe, fell back to its conjuncts on the strings.
C37_Witness ==
    /\ ds_pc = "read"
    /\ ds_st.dict_filter_cols = <<1>>
    /\ Len(ds_st.dict_filter_conjuncts) = 1
    /\ CanFilterByDict(ds_ctxs[2]) /\ ds_ctxs[2] # <<>> /\ ~ds_disable_dict_filter
    /\ Len(ds_st.non_dict_filter_conjuncts) = Len(ds_ctxs[2])

\* C37 happens: both slots are rewritten.
C37_WitnessBoth ==
    /\ ds_pc = "read"
    /\ ds_st.dict_filter_cols = <<1, 2>>
    /\ Len(ds_st.dict_filter_conjuncts) = 2
    /\ ds_st.non_dict_filter_conjuncts = <<>>

\* ========================================================================
\* OrcReader::get_next_block: the dictionary filter columns of the block
\* (vorc_reader.cpp 1847-2107, 2153-2260, 2554-2610)
\* ========================================================================
DxCols == {"a", "b"}

\* What a batch says of its stripe when it is not the first of the stripe
DxSameStripe == {"same"}

\* The batches of a file: the dictionary filter columns left by
\* on_string_dicts_loaded when the batch starts a stripe, and whether a row
\* of the batch passes the conjuncts. The first batch starts a stripe.
DxBatches == [cols : (SUBSET DxCols) \cup {DxSameStripe}, pass : BOOLEAN]

DxFiles ==
    {f \in UNION {[1..n -> DxBatches] : n \in 0..DxMaxBatches} :
        Len(f) > 0 => f[1].cols # DxSameStripe}

\* The block's dictionary filter columns become Int32 columns
DxConvertToDictCols(st) ==
    IF ~st.has_converted /\ st.dict_filter_cols # {}
    THEN [st EXCEPT !.block = [c \in DxCols |-> IF c \in st.dict_filter_cols THEN "Int32" ELSE @[c]],
                    !.has_converted = TRUE]
    ELSE st

\* OrcReader::_convert_dict_cols_to_string_cols
ConvertDictColsToStringCols(st) ==
    IF ~st.has_converted THEN st
    ELSE IF st.dict_filter_cols # {}
    THEN [st EXCEPT !.block = [c \in DxCols |-> IF c \in st.dict_filter_cols THEN "String" ELSE @[c]],
                    !.has_converted = FALSE]
    ELSE st

\* The row reader starts the stripe of a batch: the dictionary filter
\* columns are those of the stripe
DxStripeStart(st, batch) ==
    IF batch.cols = DxSameStripe THEN st ELSE [st EXCEPT !.dict_filter_cols = batch.cols]

\* OrcReader::filter, the callback of a lazy read: can_filter_all is
\* ~batch.pass
DxFilterCallback(st, batch) ==
    IF batch.pass THEN DxConvertToDictCols(st)
    ELSE ConvertDictColsToStringCols(DxConvertToDictCols(st))

DxBatchResult(st, pos, outcome) == [st |-> st, pos |-> pos, outcome |-> outcome]

RECURSIVE DxNextBatch(_, _, _, _, _)
\* _row_reader->nextBatch from batch pos of the file. A lazy read calls
\* the filter on the predicate columns of every batch until a row passes
\* and then reads the lazy columns; an eager read returns the next batch.
\* io says where a read of the input stream throws: "predicate" and "lazy"
\* are the stop exception at the first read of predicate or of lazy
\* columns, "fail" another exception at the first read.
DxNextBatch(st, file, pos, lazy, io) ==
    IF pos >= Len(file) THEN DxBatchResult(st, pos, "end")
    ELSE LET batch == file[pos + 1]
             started == DxStripeStart(st, batch)
         IN IF io = "fail" THEN DxBatchResult(started, pos, "fail")
            ELSE IF io = "predicate" THEN DxBatchResult(started, pos, "stop")
            ELSE IF ~lazy THEN DxBatchResult(started, pos + 1, "rows")
            ELSE IF ~batch.pass
            THEN DxNextBatch(DxFilterCallback(started, batch), file, pos + 1, lazy, io)
            ELSE IF io = "lazy"
            THEN DxBatchResult(DxFilterCallback(started, batch), pos, "stop")
            ELSE DxBatchResult(DxFilterCallback(started, batch), pos + 1, "rows")

DxResult(b, st, status, eof) ==
    [st |-> st, pos |-> b.pos, ret |-> [status |-> status, eof |-> eof],
     stop_thrown |-> b.outcome = "stop"]

\* OrcReader::get_next_block of a reader without COUNT push-down; stopped:
\* should_stop is set at the call
GetNextBlockDictCols(st, file, pos, lazy, stopped, io, eof0) ==
    IF stopped
    THEN [st |-> st, pos |-> pos, ret |-> [status |-> OK, eof |-> TRUE], stop_thrown |-> FALSE]
    ELSE LET b == DxNextBatch(st, file, pos, lazy, io)
         IN CASE b.outcome = "end" -> DxResult(b, b.st, OK, TRUE)
              [] b.outcome = "stop" -> DxResult(b, b.st, OK, TRUE)
              [] b.outcome = "fail" -> DxResult(b, b.st, "InternalError", eof0)
              [] OTHER ->
                    IF lazy THEN DxResult(b, ConvertDictColsToStringCols(b.st), OK, eof0)
                    ELSE DxResult(b, ConvertDictColsToStringCols(DxConvertToDictCols(b.st)),
                                  OK, eof0)

DxState0 ==
    [dict_filter_cols |-> {}, block |-> [c \in DxCols |-> "String"], has_converted |-> FALSE]

DxRet0 == [status |-> OK, eof |-> FALSE]

DxIdle ==
    /\ dx_file = <<>>
    /\ dx_lazy = FALSE
    /\ dx_pos = 0
    /\ dx_st = DxState0
    /\ dx_should_stop = FALSE
    /\ dx_ret = DxRet0
    /\ dx_pc = "idle"

DxInit ==
    /\ dx_file \in DxFiles
    /\ dx_lazy \in BOOLEAN
    /\ dx_pos = 0
    /\ dx_st = DxState0
    /\ dx_should_stop = FALSE
    /\ dx_ret = DxRet0
    /\ dx_pc = "ready"

\* OrcReader::get_next_block. The query may be cancelled while the row
\* reader reads: should_stop is then set and the read throws.
DxGetNextBlock ==
    /\ dx_pc \in {"ready", "called"}
    /\ ~dx_ret.eof
    /\ \E io \in {"none", "predicate", "lazy", "fail"} :
          /\ dx_should_stop => io \in {"none", "fail"}
          /\ \E g \in {GetNextBlockDictCols(dx_st, dx_file, dx_pos, dx_lazy, dx_should_stop,
                                            io, dx_ret.eof)} :
                /\ dx_st' = g.st
                /\ dx_pos' = g.pos
                /\ dx_ret' = g.ret
                /\ dx_pc' = IF g.ret.status = OK THEN "called" ELSE "failed"
                /\ dx_should_stop' = (dx_should_stop \/ g.stop_thrown)
    /\ UNCHANGED <<dx_file, dx_lazy, notdxvars>>

\* The query is cancelled between two calls.
DxRequestStop ==
    /\ dx_pc \in {"ready", "called"}
    /\ ~dx_should_stop
    /\ dx_should_stop' = TRUE
    /\ UNCHANGED <<dx_file, dx_lazy, dx_pos, dx_st, dx_ret, dx_pc, notdxvars>>

DxNext == DxGetNextBlock \/ DxRequestStop

\* ---- properties of the dictionary filter columns of the block
\* C36: whenever get_next_block has returned OK, every dictionary filter
\* column of the block is a string column and _dict_cols_has_converted is
\* false.
C36_NoDictCodeColumnEscapes ==
    dx_pc = "called" =>
        /\ \A c \in DxCols : dx_st.block[c] = "String"
        /\ ~dx_st.has_converted

\* The same for the calls during which the query was not cancelled
DxNoDictCodeColumnEscapesUnlessStopped ==
    (dx_pc = "called" /\ ~dx_should_stop) =>
        /\ \A c \in DxCols : dx_st.block[c] = "String"
        /\ ~dx_st.has_converted

\* ========================================================================
\* OrcReader: the cached scale parameters of the decimal columns
\* (vorc_reader.h 395-470, vorc_reader.cpp 1903-1906, 1973-1976)
\* ========================================================================
\* The decimal columns of a reader: the scale of the file's column and the
\* scale of the requested type
DpColumn(orc_scale, dest_scale) == [orc_scale |-> orc_scale, dest_scale |-> dest_scale]

DpColumns == {DpColumn(0, 2), DpColumn(2, 2), DpColumn(2, 0)}

DpColumnLists == {<<>>} \cup {<<c>> : c \in DpColumns}

DpState0 == [decimal_scale_params |-> <<>>, decimal_scale_params_index |-> 0, used |-> <<>>]

\* _decode_explicit_decimal_column: the entry of _decimal_scale_params at
\* _decimal_scale_params_index, made from the column when the index is
\* past the end; used records the column and the parameters it was
\* rescaled with.
DpDecode(st, col) ==
    LET ps == IF st.decimal_scale_params_index >= Len(st.decimal_scale_params)
              THEN Append(st.decimal_scale_params,
                          InitDecimalConverter(col.dest_scale, col.orc_scale))
              ELSE st.decimal_scale_params
    IN [decimal_scale_params |-> ps,
        decimal_scale_params_index |-> st.decimal_scale_params_index + 1,
        used |-> Append(st.used,
                        [col |-> col, scale_params |-> ps[st.decimal_scale_params_index + 1]])]

RECURSIVE DpDecodeColumns(_, _, _)
\* The columns of cols from the i-th are decoded in their order
DpDecodeColumns(st, cols, i) ==
    IF i > Len(cols) THEN st ELSE DpDecodeColumns(DpDecode(st, cols[i]), cols, i + 1)

RECURSIVE DpFilterCallbacks(_, _, _)
\* n filter callbacks of one nextBatch: each decodes the predicate columns
DpFilterCallbacks(st, predicate_columns, n) ==
    IF n = 0 THEN st
    ELSE DpFilterCallbacks(DpDecodeColumns(st, predicate_columns, 1), predicate_columns, n - 1)

\* get_next_block_impl: the index is reset before nextBatch; a lazy read
\* decodes the predicate columns in the filter callbacks of nextBatch and
\* the lazy columns after it, an eager read all columns after it. rr = 0:
\* nextBatch found no more rows.
GetNextBlockDecimals(st, predicate_columns, lazy_columns, can_lazy_read, callbacks, rr) ==
    LET reset == [st EXCEPT !.decimal_scale_params_index = 0, !.used = <<>>]
    IN IF can_lazy_read
       THEN LET filtered == DpFilterCallbacks(reset, predicate_columns, callbacks)
            IN IF rr = 0 THEN filtered ELSE DpDecodeColumns(filtered, lazy_columns, 1)
       ELSE IF rr = 0 THEN reset
       ELSE DpDecodeColumns(reset, predicate_columns \o lazy_columns, 1)

DpIdle ==
    /\ dp_predicate_columns = <<>>
    /\ dp_lazy_columns = <<>>
    /\ dp_can_lazy_read = FALSE
    /\ dp_st = DpState0
    /\ dp_callbacks = 0
    /\ dp_pc = "idle"

DpInit ==
    /\ dp_predicate_columns \in DpColumnLists
    /\ dp_lazy_columns \in DpColumnLists
    /\ dp_can_lazy_read \in BOOLEAN
    /\ dp_st = DpState0
    /\ dp_callbacks = 0
    /\ dp_pc = "ready"

\* OrcReader::get_next_block: nextBatch returns rows after one callback or
\* more in a lazy read (every batch but the last was filtered out), or
\* finds the end of the file.
DpGetNextBlock ==
    /\ dp_pc = "ready"
    /\ \E rr \in 0..1 : \E callbacks \in 0..DpMaxCallbacks :
          /\ dp_can_lazy_read => (rr = 0 \/ callbacks > 0)
          /\ ~dp_can_lazy_read => callbacks = 0
          /\ dp_st' = GetNextBlockDecimals(dp_st, dp_predicate_columns, dp_lazy_columns,
                                           dp_can_lazy_read, callbacks, rr)
          /\ dp_callbacks' = callbacks
          /\ dp_pc' = IF rr = 0 THEN "eof" ELSE "ready"
    /\ UNCHANGED <<dp_predicate_columns, dp_lazy_columns, dp_can_lazy_read, notdpvars>>

DpNext == DpGetNextBlock

\* ---- properties of the decimal scale parameters
\* Every column decoded by the last call was rescaled with the parameters
\* of its own scales
DpOwnScaleParams ==
    \A i \in DOMAIN dp_st.used :
        dp_st.used[i].scale_params
            = InitDecimalConverter(dp_st.used[i].col.dest_scale, dp_st.used[i].col.orc_scale)

\* C34: across the calls of get_next_block and the filter callbacks every
\* decimal column is rescaled with the scale parameters computed from its
\* own file scale and requested scale.
C34_DecimalScaleParamsOfOwnColumn == DpOwnScaleParams

\* The same for the readers that do not read lazily
DpOwnScaleParamsEager == ~dp_can_lazy_read => DpOwnScaleParams

\* The same for the lazy readers without decimal predicate columns
DpOwnScaleParamsNoPredicateDecimal ==
    (dp_can_lazy_read /\ dp_predicate_columns = <<>>) => DpOwnScaleParams

\* ---- the specifications of the other parts
HeadIdle == SaIdle /\ PqIdle /\ FlIdle /\ PdIdle /\ OcIdle /\ DcIdle /\ DmIdle

MidIdle == CvIdle /\ RcIdle /\ JwIdle /\ MsIdle

LastIdle == SrIdle /\ CtIdle /\ DsIdle /\ DxIdle /\ DpIdle

TailIdle == MidIdle /\ LastIdle

ScanRangesInit == SrInit /\ HeadIdle /\ MidIdle /\ CtIdle /\ DsIdle /\ DxIdle /\ DpIdle

SpecScanRanges == ScanRangesInit /\ [][SrNext]_vars

OrcCountInit == CtInit /\ HeadIdle /\ MidIdle /\ SrIdle /\ DsIdle /\ DxIdle /\ DpIdle

SpecOrcCount == OrcCountInit /\ [][CtNext]_vars

DictStripesInit == DsInit /\ HeadIdle /\ MidIdle /\ SrIdle /\ CtIdle /\ DxIdle /\ DpIdle

SpecDictStripes == DictStripesInit /\ [][DsNext]_vars

DictColsInit == DxInit /\ HeadIdle /\ MidIdle /\ SrIdle /\ CtIdle /\ DsIdle /\ DpIdle

SpecDictCols == DictColsInit /\ [][DxNext]_vars

DecimalParamsInit == DpInit /\ HeadIdle /\ MidIdle /\ SrIdle /\ CtIdle /\ DsIdle /\ DxIdle

SpecDecimalParams == DecimalParamsInit /\ [][DpNext]_vars

ConvertInit == CvInit /\ HeadIdle /\ RcIdle /\ JwIdle /\ MsIdle /\ LastIdle

RowIdInit == RcInit /\ HeadIdle /\ CvIdle /\ JwIdle /\ MsIdle /\ LastIdle

JsonbInit == JwInit /\ HeadIdle /\ CvIdle /\ RcIdle /\ MsIdle /\ LastIdle

MetaServiceInit == MsInit /\ HeadIdle /\ CvIdle /\ RcIdle /\ JwIdle /\ LastIdle

SpecMetaService == MetaServiceInit /\ [][MsNext]_vars

SpecJsonb == JsonbInit /\ [][JwNext]_vars

SpecRowId == RowIdInit /\ [][RcNext]_vars

SpecConvert == ConvertInit /\ [][CvNext]_vars

DictInit == DcInit /\ SaIdle /\ PqIdle /\ FlIdle /\ PdIdle /\ OcIdle /\ DmIdle /\ TailIdle

SpecDict == DictInit /\ [][DcNext]_vars

OrcScanInit == OcInit /\ SaIdle /\ PqIdle /\ FlIdle /\ PdIdle /\ DcIdle /\ DmIdle /\ TailIdle

SpecOrcScan == OrcScanInit /\ [][OcNext]_vars

FillInit == FlInit /\ SaIdle /\ PqIdle /\ PdIdle /\ OcIdle /\ DcIdle /\ DmIdle /\ TailIdle

SpecFill == FillInit /\ [][FlNext]_vars

DeleteInit == PdInit /\ SaIdle /\ PqIdle /\ FlIdle /\ OcIdle /\ DcIdle /\ DmIdle /\ TailIdle

SpecDelete == DeleteInit /\ [][PdNext]_vars

ParquetInit == PqInit /\ SaIdle /\ FlIdle /\ PdIdle /\ OcIdle /\ DcIdle /\ DmIdle /\ TailIdle

SpecParquet == ParquetInit /\ [][PqNext]_vars

ParquetReadLinesInit ==
    PqReadLinesInit /\ SaIdle /\ FlIdle /\ PdIdle /\ OcIdle /\ DcIdle /\ DmIdle /\ TailIdle

SpecParquetReadLines == ParquetReadLinesInit /\ [][PqNext]_vars

ParquetDeletesInit ==
    PqDeletesInit /\ SaIdle /\ FlIdle /\ PdIdle /\ OcIdle /\ DcIdle /\ DmIdle /\ TailIdle

SpecParquetDeletes == ParquetDeletesInit /\ [][PqNext]_vars

\* One reader with COUNT push-down, a ParquetReader or an OrcReader, that
\* its scanner calls until eof: a call that is due is made.
CountInit ==
    /\ \/ PqCountInit /\ CtIdle
       \/ PqIdle /\ CtInit
    /\ SaIdle /\ FlIdle /\ PdIdle /\ OcIdle /\ DcIdle /\ DmIdle /\ MidIdle /\ SrIdle /\ DsIdle /\ DxIdle /\ DpIdle

SpecCount ==
    /\ CountInit /\ [][CountNext]_vars
    /\ WF_vars(PqInitReader) /\ WF_vars(PqSetFillColumns) /\ WF_vars(PqGetNextBlock)
    /\ WF_vars(CtSetFillColumns) /\ WF_vars(CtGetNextBlock)

SargInit == SaInit /\ PqIdle /\ FlIdle /\ PdIdle /\ OcIdle /\ DcIdle /\ DmIdle /\ TailIdle

SpecSarg == SargInit /\ [][SaNext]_vars

DecimalInit == DmInit /\ SaIdle /\ PqIdle /\ FlIdle /\ PdIdle /\ OcIdle /\ DcIdle /\ TailIdle

SpecDecimal == DecimalInit /\ [][DmNext]_vars

====
